---- MODULE Spec2Model ----
(***************************************************************************)
(* Cardinal rules engine: the apply_action cycle (validate, reduce, game   *)
(* end check, stack auto-resolution, phase advancement) of GameEngine and  *)
(* the command committer, as a state machine.                              *)
(***************************************************************************)
EXTENDS Integers, Sequences, FiniteSets, TLC

(***************************************************************************)
(* Bounds of the exploration.                                               *)
(***************************************************************************)
MaxTurn == 2      \* apply_action is explored while turn.number <= MaxTurn
MaxPasses == 3    \* PassPriority is explored while priority_passes < MaxPasses
MaxStack == 2     \* the host pushes while the stack holds fewer items
MaxCopies == 2    \* the host moves cards in while the zones hold fewer cards
MaxDeckCards == 3 \* the host fills decks while the decks hold fewer cards in all

StackIds == {1, 2}
ChoiceIds == {1, 2}
Cards == {1, 2}

(***************************************************************************)
(* Option<T>: None is the empty sequence, Some(x) the one-element one.      *)
(***************************************************************************)
None == <<>>
Some(x) == <<x>>

\* Iterator::position / Iterator::find over a Vec: the least index of a
\* set of matching indices, 0 when nothing matches.
FirstIdx(S) == IF S = {} THEN 0 ELSE CHOOSE i \in S : \A j \in S : i <= j

RECURSIVE Reverse(_)
Reverse(s) == IF s = <<>> THEN <<>> ELSE Append(Reverse(Tail(s)), Head(s))

RECURSIVE CountIn(_, _)
CountIn(x, s) ==
    IF s = <<>> THEN 0
    ELSE (IF Head(s) = x THEN 1 ELSE 0) + CountIn(x, Tail(s))

(***************************************************************************)
(* Rules (rules/schema.rs).                                                 *)
(***************************************************************************)
PhaseDef(id, allow, steps) == [id |-> id, allow_actions |-> allow, steps |-> steps]
ZoneDef(id, scope) == [id |-> id, owner_scope |-> scope]
ActionDef(id, target, res) ==
    [id |-> id, target_zone |-> target, requires_empty_stack |-> res]

PhaseLists ==
    { << PhaseDef("main", TRUE, <<"play">>) >>,
      << PhaseDef("start", FALSE, <<"untap", "draw">>),
         PhaseDef("main", TRUE, <<"play">>) >>,
      << PhaseDef("main", TRUE, <<>>),
         PhaseDef("end", FALSE, <<"cleanup">>) >>,
      << PhaseDef("main", TRUE, <<"play", "play">>) >> }

ZoneDefs == << ZoneDef("hand", "Player"), ZoneDef("field", "Player"),
               ZoneDef("exile", "Shared") >>

ActionLists ==
    { <<>>,
      << ActionDef("play_card", None, FALSE) >>,
      << ActionDef("play_card", Some("field"), TRUE) >>,
      << ActionDef("play_card", Some("field"), FALSE) >>,
      << ActionDef("play_card", Some("exile"), FALSE) >>,
      << ActionDef("play_card", Some("limbo"), FALSE) >> }

Ruleset(n, first, phases, actions) ==
    [ players |-> [min_players |-> n, starting_life |-> 1,
                   starting_hand_size |-> 1, max_hand_size |-> 1,
                   first_player_rule |-> first],
      zones   |-> ZoneDefs,
      turn    |-> [skip_first_turn_draw_for_first_player |-> FALSE,
                   phases |-> phases],
      actions |-> actions ]

\* Rules with a deck and a hand per player, for the opening deal.
DealZoneDefs == << ZoneDef("deck", "Player"), ZoneDef("hand", "Player") >>

DealRuleset(n, first, hand, max, skip) ==
    [ players |-> [min_players |-> n, starting_life |-> 1,
                   starting_hand_size |-> hand, max_hand_size |-> max,
                   first_player_rule |-> first],
      zones   |-> DealZoneDefs,
      turn    |-> [skip_first_turn_draw_for_first_player |-> skip,
                   phases |-> << PhaseDef("main", TRUE, <<"play">>) >>],
      actions |-> << ActionDef("play_card", Some("hand"), TRUE) >> ]

\* The rulesets explored by the turn machine: one and two players with
\* every phase list (rules validation accepts a phase without steps and a
\* step id that occurs twice), three players with a single step per turn and the
\* second player starting.
StandardPlay == << ActionDef("play_card", Some("field"), TRUE) >>
PlayOnAnyStack == << ActionDef("play_card", Some("field"), FALSE) >>
TurnRulesets ==
    { Ruleset(n, "player_0", ph, StandardPlay) : n \in {1, 2}, ph \in PhaseLists }
    \cup { Ruleset(3, "player_1", << PhaseDef("main", TRUE, <<"play">>) >>,
                   StandardPlay) }

\* The rulesets explored by the card plays: a two-player game with a random
\* first player that plays to the player's field on an empty stack, a
\* one-player game that plays to a shared zone, and a one-player game whose
\* first phase forbids plays.
\* The rulesets explored by the opening deal: every first-player rule the
\* code names and one it does not, hands smaller and larger than the decks,
\* a hand limit below the starting hand, with and without the skipped draw.
DealRulesets ==
    { DealRuleset(2, "random", 2, 2, FALSE),
      DealRuleset(2, "coin", 1, 2, TRUE),
      DealRuleset(2, "second", 2, 1, TRUE),
      DealRuleset(2, "player_1", 3, 3, FALSE),
      DealRuleset(2, "first", 3, 2, TRUE),
      DealRuleset(2, "player_0", 0, 1, FALSE),
      DealRuleset(1, "second", 2, 2, FALSE),
      DealRuleset(1, "random", 2, 0, TRUE) }

PlayRulesets ==
    { Ruleset(2, "random", << PhaseDef("main", TRUE, <<"play">>) >>, StandardPlay),
      Ruleset(1, "first", << PhaseDef("main", TRUE, <<>>) >>,
              << ActionDef("play_card", Some("exile"), FALSE) >>),
      Ruleset(1, "second", << PhaseDef("start", FALSE, <<"untap">>),
                              PhaseDef("main", TRUE, <<"play">>) >>,
              PlayOnAnyStack) }

(***************************************************************************)
(* State (state/gamestate.rs).                                              *)
(***************************************************************************)
VARIABLES rules, state, next_choice_id, next_stack_id, last, pushed, run1, run2, consec,
          issued

vars == << rules, state, next_choice_id, next_stack_id, last, pushed, run1, run2, consec,
          issued >>

\* format!("{}@{}", zone, player_index)
PlayerZoneId(zone, i) == zone \o "@" \o ToString(i)

RECURSIVE ZonesFrom(_, _)
ZonesFrom(zdefs, n) ==
    IF zdefs = <<>> THEN <<>>
    ELSE LET z == Head(zdefs)
             mine == IF z.owner_scope = "Player"
                     THEN [i \in 1..n |-> [id |-> PlayerZoneId(z.id, i - 1),
                                           owner |-> Some(i - 1),
                                           cards |-> <<>>]]
                     ELSE << [id |-> z.id, owner |-> None, cards |-> <<>>] >>
         IN mine \o ZonesFrom(Tail(zdefs), n)

\* HashMap::new()
NoEntries == <<>>

FromRuleset(r) ==
    LET n == r.players.min_players
        first == IF r.turn.phases # <<>>
                 THEN IF r.turn.phases[1].steps # <<>>
                      THEN << r.turn.phases[1].id, r.turn.phases[1].steps[1] >>
                      ELSE << r.turn.phases[1].id, "start" >>
                 ELSE << "start", "untap" >>
    IN [ turn |-> [ number |-> 1, active_player |-> 0, priority_player |-> 0,
                    phase |-> first[1], step |-> first[2], priority_passes |-> 0 ],
         players |-> [i \in 1..n |-> [id |-> i - 1, life |-> r.players.starting_life]],
         zones |-> ZonesFrom(r.zones, n),
         stack |-> <<>>,
         pending_choice |-> None,
         ended |-> None,
         card_instances |-> NoEntries ]

(***************************************************************************)
(* Game initialization (engine/init.rs).  The generator seeded by            *)
(* initialize_game is the stream of u32 values it yields, rng; each          *)
(* operator is handed the stream and the number of values already taken.     *)
(***************************************************************************)
RngValues == 0..2
RngStreams == [1..MaxDeckCards -> RngValues]

ZoneIdx(zones, id) == FirstIdx({i \in DOMAIN zones : zones[i].id = id})

\* Vec::swap on indices counted from 1
Swap(cards, a, b) == [cards EXCEPT ![a] = cards[b], ![b] = cards[a]]

\* for i in (1..len).rev() { j = rng() % (i + 1); cards.swap(i, j) }
RECURSIVE FisherYates(_, _, _, _)
FisherYates(cards, i, rng, taken) ==
    IF i < 1 THEN [cards |-> cards, taken |-> taken]
    ELSE FisherYates(Swap(cards, i + 1, (rng[taken + 1] % (i + 1)) + 1),
                     i - 1, rng, taken + 1)

Shuffled(s, zi, sh) ==
    [state |-> [s EXCEPT !.zones[zi].cards = sh.cards], taken |-> sh.taken]

ShuffleAt(s, zi, rng, taken) ==
    IF zi = 0 THEN [state |-> s, taken |-> taken]
    ELSE Shuffled(s, zi, FisherYates(s.zones[zi].cards, Len(s.zones[zi].cards) - 1,
                                     rng, taken))

shuffle_player_deck(s, player, rng, taken) ==
    ShuffleAt(s, ZoneIdx(s.zones, PlayerZoneId("deck", player)), rng, taken)

\* for i in 0..num_players { shuffle_player_deck(..) }
RECURSIVE ShuffleDecks(_, _, _)
ShuffleDecks(sh, i, rng) ==
    IF i >= Len(sh.state.players) THEN sh
    ELSE ShuffleDecks(shuffle_player_deck(sh.state, i, rng, sh.taken), i + 1, rng)

\* The second player starts also when there is no second player.
determine_first_player_AlwaysSecond(rule, num_players, x) ==
    CASE rule = "random" -> x % num_players
      [] rule \in {"player_0", "first"} -> 0
      [] rule \in {"player_1", "second"} -> 1
      [] OTHER -> x % num_players

\* x is the value the generator yields if the rule draws one.
determine_first_player(rule, num_players, x) ==
    CASE rule = "random" -> x % num_players
      [] rule \in {"player_0", "first"} -> 0
      [] rule \in {"player_1", "second"} -> IF num_players > 1 THEN 1 ELSE 0
      [] OTHER -> x % num_players

\* iter().take(count)
Take(cards, count) ==
    SubSeq(cards, 1, IF count < Len(cards) THEN count ELSE Len(cards))

\* cards.remove(0), count times
RemoveFront(cards, count) == SubSeq(cards, count + 1, Len(cards))

\* Every drawn card is pushed, whatever the hand holds.
PushAll(hand, cards, max) == hand \o cards

\* for card in cards_to_draw { if hand.len() < max_hand_size { hand.push(card) } }
RECURSIVE PushWhileBelow(_, _, _)
PushWhileBelow(hand, cards, max) ==
    IF cards = <<>> THEN hand
    ELSE PushWhileBelow(IF Len(hand) < max THEN Append(hand, Head(cards)) ELSE hand,
                        Tail(cards), max)

AddToHand(zones, hi, cards, max) ==
    IF hi = 0 THEN zones
    ELSE [zones EXCEPT ![hi].cards = PushWhileBelow(@, cards, max)]

DrawFrom(s, di, hi, cards_to_draw, max) ==
    [s EXCEPT !.zones =
        AddToHand(IF di = 0 THEN s.zones
                  ELSE [s.zones EXCEPT ![di].cards = RemoveFront(@, Len(cards_to_draw))],
                  hi, cards_to_draw, max)]

DrawAt(s, di, hi, count, max) ==
    DrawFrom(s, di, hi, Take(IF di = 0 THEN <<>> ELSE s.zones[di].cards, count), max)

draw_cards(s, player, count, r) ==
    DrawAt(s, ZoneIdx(s.zones, PlayerZoneId("deck", player)),
           ZoneIdx(s.zones, PlayerZoneId("hand", player)),
           count, r.players.max_hand_size)

\* for i in 0..num_players { if !should_skip { draw_cards(..) } }
RECURSIVE DrawHands(_, _, _, _)
DrawHands(s, i, first_player, r) ==
    IF i >= Len(s.players) THEN s
    ELSE DrawHands(IF r.turn.skip_first_turn_draw_for_first_player /\ i = first_player
                   THEN s
                   ELSE draw_cards(s, i, r.players.starting_hand_size, r),
                   i + 1, first_player, r)

WithFirstPlayer(s, first_player, r) ==
    DrawHands([s EXCEPT !.turn.active_player = first_player,
                        !.turn.priority_player = first_player],
              0, first_player, r)

AfterShuffle(sh, r, rng) ==
    WithFirstPlayer(sh.state,
                    determine_first_player(r.players.first_player_rule,
                                           Len(sh.state.players), rng[sh.taken + 1]),
                    r)

initialize_game(s, r, rng) ==
    AfterShuffle(ShuffleDecks([state |-> s, taken |-> 0], 0, rng), r, rng)

(***************************************************************************)
(* Actions, commands and events (model/action.rs, command.rs, event.rs).    *)
(***************************************************************************)
PassPriority == [type |-> "PassPriority"]
Concede == [type |-> "Concede"]
PlayCard(card, from) == [type |-> "PlayCard", card |-> card, from |-> from]
ChooseTarget(choice_id) == [type |-> "ChooseTarget", choice_id |-> choice_id]

MoveCard(card, from, to) == [type |-> "MoveCard", card |-> card, from |-> from, to |-> to]
ChangeLife(player, delta) == [type |-> "ChangeLife", player |-> player, delta |-> delta]
SetLife(player, amount) == [type |-> "SetLife", player |-> player, amount |-> amount]
PushStack(item) == [type |-> "PushStack", item |-> item]
RequestChoice(player, choice) == [type |-> "RequestChoice", player |-> player, choice |-> choice]
ShuffleZone(zone) == [type |-> "ShuffleZone", zone |-> zone]

StackItem(id, controller) == [id |-> id, controller |-> controller]
PendingChoice(id) == [id |-> id]

Ok(s, events) == [ok |-> TRUE, state |-> s, events |-> events]
Err(s, msg) == [ok |-> FALSE, state |-> s, events |-> <<>>, error |-> msg]

(***************************************************************************)
(* Command committer (engine/events.rs).                                    *)
(***************************************************************************)
PlayerIdx(players, id) == FirstIdx({i \in DOMAIN players : players[i].id = id})

\* Vec::retain(|c| c != card)
Retain(cards, card) == SelectSeq(cards, LAMBDA c : c # card)

\* A move that leaves the card in its source zone.
CommitMoveCard_Copy(s, cmd) ==
    LET ti == ZoneIdx(s.zones, cmd.to)
        z2 == IF ti = 0 THEN s.zones
              ELSE [s.zones EXCEPT ![ti].cards = Append(@, cmd.card)]
    IN [ state |-> [s EXCEPT !.zones = z2],
         events |-> << [type |-> "CardMoved", card |-> cmd.card,
                        from |-> cmd.from, to |-> cmd.to] >> ]

CommitMoveCard(s, cmd) ==
    LET fi == ZoneIdx(s.zones, cmd.from)
        z1 == IF fi = 0 THEN s.zones
              ELSE [s.zones EXCEPT ![fi].cards = Retain(@, cmd.card)]
        ti == ZoneIdx(z1, cmd.to)
        z2 == IF ti = 0 THEN z1
              ELSE [z1 EXCEPT ![ti].cards = Append(@, cmd.card)]
    IN [ state |-> [s EXCEPT !.zones = z2],
         events |-> << [type |-> "CardMoved", card |-> cmd.card,
                        from |-> cmd.from, to |-> cmd.to] >> ]

CommitChangeLife(s, cmd) ==
    LET pi == PlayerIdx(s.players, cmd.player)
    IN [ state |-> IF pi = 0 THEN s
                   ELSE [s EXCEPT !.players[pi].life = @ + cmd.delta],
         events |-> << [type |-> "LifeChanged", player |-> cmd.player,
                        delta |-> cmd.delta] >> ]

CommitSetLife(s, cmd) ==
    LET pi == PlayerIdx(s.players, cmd.player)
    IN [ state |-> IF pi = 0 THEN s
                   ELSE [s EXCEPT !.players[pi].life = cmd.amount],
         events |-> << [type |-> "LifeSet", player |-> cmd.player,
                        amount |-> cmd.amount] >> ]

\* A push at the bottom of the stack instead of the top.
CommitPushStack_Bottom(s, cmd) ==
    [ state |-> [s EXCEPT !.stack = << cmd.item >> \o @],
      events |-> << [type |-> "StackPushed", item_id |-> cmd.item.id] >> ]

CommitPushStack(s, cmd) ==
    [ state |-> [s EXCEPT !.stack = Append(@, cmd.item)],
      events |-> << [type |-> "StackPushed", item_id |-> cmd.item.id] >> ]

CommitRequestChoice(s, cmd) ==
    [ state |-> [s EXCEPT !.pending_choice = Some(cmd.choice)],
      events |-> << [type |-> "ChoiceRequested", choice_id |-> cmd.choice.id,
                     player |-> cmd.player] >> ]

\* The 32-bit integers.  An i32 is its number; a u32 below 2^31 is its
\* number and a u32 from 2^31 on is its number less 2^32, the i32 of the same
\* 32 bits, so that u32::MAX is -1 and a wrapping addition is the same on both.
I32Max == 2147483647
I32Min == (-I32Max) - 1
U32MaxBits == -1
U32Less(a, b) == IF (a < 0) = (b < 0) THEN a < b ELSE a >= 0

\* a + b leaves the i32, and the sum modulo 2^32 that is left without
\* overflow checks.
AddOverflows(a, b) == IF b >= 0 THEN a > I32Max - b ELSE a < I32Min - b
WrappingAdd(a, b) ==
    IF ~AddOverflows(a, b) THEN a + b
    ELSE IF b >= 0 THEN ((a - I32Max) - 1) + ((b - I32Max) - 1)
    ELSE ((a + I32Max) + 1) + ((b + I32Max) + 1)
SubOverflows(a, b) == IF b = I32Min THEN a >= 0 ELSE AddOverflows(a, -b)
WrappingSub(a, b) == IF b = I32Min THEN WrappingAdd(a, I32Min) ELSE WrappingAdd(a, -b)

\* HashMap: entry(k).or_insert(d) read, and insert(k, v).
EntryOr(m, k, d) == IF k \in DOMAIN m THEN m[k] ELSE d
Inserted(m, k, v) == [x \in DOMAIN m \cup {k} |-> IF x = k THEN v ELSE m[x]]

CardInstanceData ==
    [stats |-> NoEntries, stat_modifiers |-> NoEntries, keywords |-> <<>>,
     counters |-> NoEntries]

\* state.zones.iter().flat_map(|z| &z.cards).map(|c| c.0).max().unwrap_or(0)
RECURSIVE MaxOf(_, _)
MaxOf(cards, acc) ==
    IF cards = <<>> THEN acc
    ELSE MaxOf(Tail(cards), IF U32Less(acc, Head(cards)) THEN Head(cards) ELSE acc)
RECURSIVE AllCards(_)
AllCards(zones) == IF zones = <<>> THEN <<>> ELSE Head(zones).cards \o AllCards(Tail(zones))
MaxCardId(s) == MaxOf(AllCards(s.zones), 0)

TokenCreated(s, cmd, token_id, zi) ==
    [ state |-> [s EXCEPT !.zones = IF zi = 0 THEN @
                                    ELSE [@ EXCEPT ![zi].cards = Append(@, token_id)],
                          !.card_instances = Inserted(@, token_id, CardInstanceData)],
      events |-> << [type |-> "TokenCreated", player |-> cmd.player,
                     token_type |-> cmd.token_type, card |-> token_id,
                     zone |-> cmd.zone] >> ]

\* let token_id = CardId(max_id + 1), without overflow checks
CommitCreateToken(s, cmd) ==
    TokenCreated(s, cmd, WrappingAdd(MaxCardId(s), 1), ZoneIdx(s.zones, cmd.zone))

\* entry(card).or_insert_with(|| CardInstanceData { .. })
InstanceOr(s, card) == EntryOr(s.card_instances, card, CardInstanceData)
WithCounter(s, card, instance, counter_type, value) ==
    [s EXCEPT !.card_instances =
        Inserted(@, card, [instance EXCEPT !.counters = Inserted(@, counter_type, value)])]

\* *instance.counters.entry(counter_type).or_insert(0) += *amount, without
\* overflow checks
CommitAddCounter(s, cmd) ==
    [ state |-> WithCounter(s, cmd.card, InstanceOr(s, cmd.card), cmd.counter_type,
                            WrappingAdd(EntryOr(InstanceOr(s, cmd.card).counters,
                                                cmd.counter_type, 0), cmd.amount)),
      events |-> << [type |-> "CounterAdded", card |-> cmd.card,
                     counter_type |-> cmd.counter_type, amount |-> cmd.amount] >> ]

Max0(n) == IF n < 0 THEN 0 ELSE n

\* *current = (*current - *amount).max(0), when the card has an instance
CommitRemoveCounter(s, cmd) ==
    [ state |-> IF cmd.card \notin DOMAIN s.card_instances THEN s
                ELSE WithCounter(s, cmd.card, s.card_instances[cmd.card],
                                 cmd.counter_type,
                                 Max0(WrappingSub(EntryOr(s.card_instances[cmd.card].counters,
                                                          cmd.counter_type, 0),
                                                  cmd.amount))),
      events |-> << [type |-> "CounterRemoved", card |-> cmd.card,
                     counter_type |-> cmd.counter_type, amount |-> cmd.amount] >> ]

\* The arithmetic of the command overflows: a panic with overflow checks, the
\* wrapped value without them.
Overflows(s, cmd) ==
    CASE cmd.type = "CreateToken" -> MaxCardId(s) = U32MaxBits
      [] cmd.type = "AddCounter" ->
            AddOverflows(EntryOr(InstanceOr(s, cmd.card).counters, cmd.counter_type, 0),
                         cmd.amount)
      [] cmd.type = "RemoveCounter" ->
            /\ cmd.card \in DOMAIN s.card_instances
            /\ SubOverflows(EntryOr(s.card_instances[cmd.card].counters,
                                    cmd.counter_type, 0), cmd.amount)
      [] OTHER -> FALSE

\* The state an overflow panic leaves behind: the entries made before the
\* arithmetic.
Panicked(s, cmd) ==
    CASE cmd.type = "AddCounter" ->
            WithCounter(s, cmd.card, InstanceOr(s, cmd.card), cmd.counter_type,
                        EntryOr(InstanceOr(s, cmd.card).counters, cmd.counter_type, 0))
      [] cmd.type = "RemoveCounter" ->
            WithCounter(s, cmd.card, s.card_instances[cmd.card], cmd.counter_type,
                        EntryOr(s.card_instances[cmd.card].counters, cmd.counter_type, 0))
      [] OTHER -> s

CommitCommand(s, cmd) ==
    CASE cmd.type = "MoveCard" -> CommitMoveCard(s, cmd)
      [] cmd.type = "ChangeLife" -> CommitChangeLife(s, cmd)
      [] cmd.type = "SetLife" -> CommitSetLife(s, cmd)
      [] cmd.type = "PushStack" -> CommitPushStack(s, cmd)
      [] cmd.type = "RequestChoice" -> CommitRequestChoice(s, cmd)
      [] cmd.type = "CreateToken" -> CommitCreateToken(s, cmd)
      [] cmd.type = "AddCounter" -> CommitAddCounter(s, cmd)
      [] cmd.type = "RemoveCounter" -> CommitRemoveCounter(s, cmd)

\* todo!(): the arm of ShuffleZone panics, so that commit_commands does not
\* return.
Panics(cmd) == cmd.type = "ShuffleZone"

\* The result of commit_commands: the state it leaves behind, the events it
\* returns, and whether it panicked instead of returning.  A panic leaves
\* the mutations of the commands before it in the state and returns nothing.
Committed(r, rest) ==
    [ state |-> rest.state,
      events |-> IF rest.panic THEN <<>> ELSE r.events \o rest.events,
      panic |-> rest.panic ]

RECURSIVE commit_commands(_, _)
CommitRest(r, commands) == Committed(r, commit_commands(r.state, commands))

commit_commands(s, commands) ==
    IF commands = <<>> THEN [state |-> s, events |-> <<>>, panic |-> FALSE]
    ELSE IF Panics(Head(commands)) THEN [state |-> s, events |-> <<>>, panic |-> TRUE]
    ELSE CommitRest(CommitCommand(s, Head(commands)), Tail(commands))

(***************************************************************************)
(* Legality (engine/legality.rs).                                           *)
(***************************************************************************)
PhaseIdx(r, phase) ==
    FirstIdx({i \in DOMAIN r.turn.phases : r.turn.phases[i].id = phase})
ActionIdx(r, id) ==
    FirstIdx({i \in DOMAIN r.actions : r.actions[i].id = id})

\* No ownership check on the source zone.
OwnedByOther_Never(zone, player) == FALSE

OwnedByOther(zone, player) == zone.owner # None /\ zone.owner[1] # player

ValidatePlayCard(r, s, player, action) ==
    LET current_phase == r.turn.phases[PhaseIdx(r, s.turn.phase)]
        zi == ZoneIdx(s.zones, action.from)
        ai == ActionIdx(r, "play_card")
    IN IF ~current_phase.allow_actions
       THEN Err(s, "Current phase does not allow card plays")
       ELSE IF zi = 0
       THEN Err(s, "Source zone does not exist")
       ELSE IF OwnedByOther(s.zones[zi], player)
       THEN Err(s, "Cannot play cards from opponent's zones")
       ELSE IF CountIn(action.card, s.zones[zi].cards) = 0
       THEN Err(s, "Card is not in the specified source zone")
       ELSE IF ai # 0 /\ r.actions[ai].requires_empty_stack /\ s.stack # <<>>
       THEN Err(s, "Cannot play card: stack is not empty and action requires empty stack")
       ELSE Ok(s, <<>>)

ValidateChooseTarget(s, action) ==
    IF s.pending_choice = None
    THEN Err(s, "No pending choice to respond to")
    ELSE IF s.pending_choice[1].id = action.choice_id
    THEN Ok(s, <<>>)
    ELSE Err(s, "Choice ID mismatch")

\* No check of the end-of-game marker.
GameHasEnded_Never(s) == FALSE

GameHasEnded(s) == s.ended # None

validate(r, s, player, action) ==
    IF GameHasEnded(s)
    THEN Err(s, "Game has ended")
    ELSE IF action.type \notin {"PassPriority", "Concede"}
            /\ player # s.turn.active_player
    THEN Err(s, "Only active player can take this action")
    ELSE IF PhaseIdx(r, s.turn.phase) = 0
    THEN Err(s, "Invalid phase")
    ELSE CASE action.type \in {"PassPriority", "Concede"} -> Ok(s, <<>>)
           [] action.type = "PlayCard" -> ValidatePlayCard(r, s, player, action)
           [] action.type = "ChooseTarget" -> ValidateChooseTarget(s, action)

(***************************************************************************)
(* Reducer (engine/reducer.rs).  The state of an Err result is the state    *)
(* the reducer leaves behind, mutations made before the error included.     *)
(***************************************************************************)
AllPassed(s) == s.turn.priority_passes >= Len(s.players)

\* The pass is counted before the priority holder is checked.
ReducePassPriority_CountFirst(s, player) ==
    LET s1 == [s EXCEPT !.turn.priority_passes = @ + 1]
        s2 == IF ~AllPassed(s1)
              THEN [s1 EXCEPT !.turn.priority_player = (player + 1) % Len(s.players)]
              ELSE s1
    IN IF player # s.turn.priority_player
       THEN Err(s1, "Only the priority player can pass priority")
       ELSE Ok(s2, << [type |-> "PriorityPassed", by |-> player] >>)

ReducePassPriority(s, player) ==
    IF player # s.turn.priority_player
    THEN Err(s, "Only the priority player can pass priority")
    ELSE LET s1 == [s EXCEPT !.turn.priority_passes = @ + 1]
             s2 == IF ~AllPassed(s1)
                   THEN [s1 EXCEPT !.turn.priority_player =
                                       (player + 1) % Len(s.players)]
                   ELSE s1
         IN Ok(s2, << [type |-> "PriorityPassed", by |-> player] >>)

\* format!("Player {:?} conceded", player)
ConcedeReason(player) == "Player PlayerId(" \o ToString(player) \o ") conceded"

ReduceConcede(s, player) ==
    LET wi == FirstIdx({i \in DOMAIN s.players : s.players[i].id # player})
        winner == IF wi = 0 THEN None ELSE Some(s.players[wi].id)
    IN Ok([s EXCEPT !.ended = Some([winner |-> winner,
                                    reason |-> ConcedeReason(player)])],
          << [type |-> "GameEnded", winner |-> winner,
              reason |-> ConcedeReason(player)] >>)

\* The destination of a play: Some(zone id), or None with the error.
TargetZone(r, player) ==
    LET ai == ActionIdx(r, "play_card")
    IN IF ai = 0
       THEN [zone |-> None, error |-> "play_card action not defined in rules"]
       ELSE IF r.actions[ai].target_zone = None
       THEN [zone |-> None, error |-> "play_card action has no target_zone defined"]
       ELSE LET target == r.actions[ai].target_zone[1]
                zd == FirstIdx({i \in DOMAIN r.zones : r.zones[i].id = target})
            IN IF zd = 0
               THEN [zone |-> None, error |-> "target zone not found in rules"]
               ELSE IF r.zones[zd].owner_scope = "Player"
               THEN [zone |-> Some(PlayerZoneId(target, player)), error |-> ""]
               ELSE [zone |-> Some(target), error |-> ""]

CardPlayed(c, player, card) ==
    Ok(c.state, Append(c.events, [type |-> "CardPlayed", player |-> player,
                                  card |-> card]))

PlayTo(s, player, action, tz) ==
    IF tz.zone = None
    THEN Err(s, tz.error)
    ELSE CardPlayed(commit_commands(s, << MoveCard(action.card, action.from, tz.zone[1]) >>),
                    player, action.card)

ReducePlayCard(r, s, player, action) ==
    PlayTo(s, player, action, TargetZone(r, player))

ReduceChooseTarget(s) == Ok([s EXCEPT !.pending_choice = None], <<>>)

apply(r, s, player, action) ==
    CASE action.type = "PassPriority" -> ReducePassPriority(s, player)
      [] action.type = "Concede" -> ReduceConcede(s, player)
      [] action.type = "PlayCard" -> ReducePlayCard(r, s, player, action)
      [] action.type = "ChooseTarget" -> ReduceChooseTarget(s)

(***************************************************************************)
(* Engine facade (engine/core.rs).                                          *)
(***************************************************************************)
LifeEndReason == "Life total reached 0"

\* The winner is the last player with positive life instead of the first.
LifeEnd_LastAlive(s) ==
    LET alive == {i \in DOMAIN s.players : s.players[i].life > 0}
        wi == IF alive = {} THEN 0 ELSE CHOOSE i \in alive : \A j \in alive : j <= i
    IN [winner |-> IF wi = 0 THEN None ELSE Some(s.players[wi].id),
        reason |-> LifeEndReason]

LifeEnd(s) ==
    LET wi == FirstIdx({i \in DOMAIN s.players : s.players[i].life > 0})
    IN [winner |-> IF wi = 0 THEN None ELSE Some(s.players[wi].id),
        reason |-> LifeEndReason]

GameEnded(end) == [type |-> "GameEnded", winner |-> end.winner, reason |-> end.reason]

check_game_end(s, events) ==
    IF \E i \in DOMAIN s.players : s.players[i].life <= 0
    THEN [ state |-> [s EXCEPT !.ended = Some(LifeEnd(s))],
           events |-> Append(events, GameEnded(LifeEnd(s))) ]
    ELSE [state |-> s, events |-> events]

\* Vec::pop: the item at the end of the stack.
StackTop(stack) == stack[Len(stack)]
StackPop(stack) == SubSeq(stack, 1, Len(stack) - 1)

\* Only the top item is resolved.
auto_resolve_stack_Once(s, events) ==
    IF s.stack # <<>> /\ s.pending_choice = None
    THEN [ state |-> [s EXCEPT !.stack = StackPop(s.stack)],
           events |-> Append(events, [type |-> "StackResolved",
                                      item_id |-> StackTop(s.stack).id]) ]
    ELSE [state |-> s, events |-> events]

RECURSIVE auto_resolve_stack(_, _)
auto_resolve_stack(s, events) ==
    IF s.stack # <<>> /\ s.pending_choice = None
    THEN auto_resolve_stack(
             [s EXCEPT !.stack = StackPop(s.stack)],
             Append(events, [type |-> "StackResolved",
                             item_id |-> StackTop(s.stack).id]))
    ELSE [state |-> s, events |-> events]

\* A pending choice does not hold the phase back.
AdvanceBlocked_StackOnly(s) == s.stack # <<>>

AdvanceBlocked(s) == s.stack # <<>> \/ s.pending_choice # None
\* The phase advances one pass early.
NotAllPassedYet_OneEarly(s) == s.turn.priority_passes + 1 < Len(s.players)

NotAllPassedYet(s) == s.turn.priority_passes < Len(s.players)

PhaseAdvanced(s) == [type |-> "PhaseAdvanced", phase |-> s.turn.phase, step |-> s.turn.step]

\* Every phase is entered at the placeholder step.
FirstStepOf_Placeholder(phase) == "start"

\* phases.first().steps.first(), or the placeholder step
FirstStepOf(phase) == IF phase.steps # <<>> THEN phase.steps[1] ELSE "start"

\* The turn wraps without rotating the active player.
NextTurn_SamePlayer(r, s) ==
    [s EXCEPT !.turn.phase = r.turn.phases[1].id,
              !.turn.step = FirstStepOf(r.turn.phases[1]),
              !.turn.number = @ + 1,
              !.turn.priority_player = s.turn.active_player]

\* The turn wraps and the active player rotates, but the turn is not counted.
NextTurn_NoCount(r, s) ==
    [s EXCEPT !.turn.phase = r.turn.phases[1].id,
              !.turn.step = FirstStepOf(r.turn.phases[1]),
              !.turn.active_player = (s.turn.active_player + 1) % Len(s.players),
              !.turn.priority_player = (s.turn.active_player + 1) % Len(s.players)]

NextTurn(r, s) ==
    LET n == Len(s.players)
        next_player_idx == (s.turn.active_player + 1) % n
    IN [s EXCEPT !.turn.phase = r.turn.phases[1].id,
                 !.turn.step = FirstStepOf(r.turn.phases[1]),
                 !.turn.number = @ + 1,
                 !.turn.active_player = next_player_idx,
                 !.turn.priority_player = next_player_idx]

\* The advance leaves out the step that follows.
AdvanceFrom_SkipStep(r, s, pi, si) ==
    IF si + 2 <= Len(r.turn.phases[pi].steps)
    THEN [s EXCEPT !.turn.step = r.turn.phases[pi].steps[si + 2]]
    ELSE IF pi + 1 <= Len(r.turn.phases)
    THEN [s EXCEPT !.turn.phase = r.turn.phases[pi + 1].id,
                   !.turn.step = FirstStepOf(r.turn.phases[pi + 1])]
    ELSE NextTurn(r, s)

\* The phase and step after (phase index pi, step index si) of state s.
AdvanceFrom(r, s, pi, si) ==
    IF si + 1 <= Len(r.turn.phases[pi].steps)
    THEN [s EXCEPT !.turn.step = r.turn.phases[pi].steps[si + 1]]
    ELSE IF pi + 1 <= Len(r.turn.phases)
    THEN [s EXCEPT !.turn.phase = r.turn.phases[pi + 1].id,
                   !.turn.step = FirstStepOf(r.turn.phases[pi + 1])]
    ELSE NextTurn(r, s)

\* position(..).unwrap_or(0), counted from 1
OrFirst(idx) == IF idx = 0 THEN 1 ELSE idx
StepIdx(phase, step) == FirstIdx({i \in DOMAIN phase.steps : phase.steps[i] = step})

Advanced(s, events) == [state |-> s, events |-> Append(events, PhaseAdvanced(s))]

AdvancePhase(r, s, events, pi) ==
    Advanced(AdvanceFrom(r, s, pi, OrFirst(StepIdx(r.turn.phases[pi], s.turn.step))),
             events)

\* The advance resets the passes and leaves the priority where it is.
advance_phase_if_ready_KeepHolder(r, s, events) ==
    IF AdvanceBlocked(s) THEN [state |-> s, events |-> events]
    ELSE IF NotAllPassedYet(s) THEN [state |-> s, events |-> events]
    ELSE AdvancePhase(r, [s EXCEPT !.turn.priority_passes = 0], events,
                      OrFirst(PhaseIdx(r, s.turn.phase)))

advance_phase_if_ready(r, s, events) ==
    IF AdvanceBlocked(s) THEN [state |-> s, events |-> events]
    ELSE IF NotAllPassedYet(s) THEN [state |-> s, events |-> events]
    ELSE AdvancePhase(r,
                      [s EXCEPT !.turn.priority_passes = 0,
                                !.turn.priority_player = s.turn.active_player],
                      events,
                      OrFirst(PhaseIdx(r, s.turn.phase)))

\* The steps of apply_action that follow the reducer.
AfterResolve(r, e) == advance_phase_if_ready(r, e.state, e.events)
AfterGameEnd(r, e) == AfterResolve(r, auto_resolve_stack(e.state, e.events))
\* The stack is resolved before the life totals are checked.
AfterApply_ResolveFirst(r, red) ==
    IF ~red.ok THEN Err(red.state, red.error)
    ELSE LET e == AfterResolve(r, check_game_end(
                      auto_resolve_stack(red.state, red.events).state,
                      auto_resolve_stack(red.state, red.events).events))
         IN Ok(e.state, e.events)

AfterApply(r, red) ==
    IF ~red.ok THEN Err(red.state, red.error)
    ELSE LET e == AfterGameEnd(r, check_game_end(red.state, red.events))
         IN Ok(e.state, e.events)

Validated(r, s, player, action, v) ==
    IF ~v.ok THEN Err(s, v.error)
    ELSE AfterApply(r, apply(r, s, player, action))

apply_action(r, s, player, action) ==
    Validated(r, s, player, action, validate(r, s, player, action))

(***************************************************************************)
(* Effects (engine/effect_executor.rs).  A text is the sequence of its     *)
(* characters; a u32 or u8 read from a text is held as a number, a u32     *)
(* that may pass the largest number of the checker as its decimal numeral. *)
(***************************************************************************)
DigitChars == << "0", "1", "2", "3", "4", "5", "6", "7", "8", "9" >>
IsDigit(c) == \E d \in DOMAIN DigitChars : DigitChars[d] = c
DigitValue(c) == (CHOOSE d \in DOMAIN DigitChars : DigitChars[d] = c) - 1
AllDigits(t) == t # <<>> /\ \A i \in DOMAIN t : IsDigit(t[i])

RECURSIVE StripZeros(_)
StripZeros(t) == IF Len(t) > 1 /\ Head(t) = "0" THEN StripZeros(Tail(t)) ELSE t

\* a <= b for two numerals of the same length
RECURSIVE NumeralLeq(_, _)
NumeralLeq(a, b) ==
    IF a = <<>> THEN TRUE
    ELSE IF DigitValue(Head(a)) < DigitValue(Head(b)) THEN TRUE
    ELSE IF DigitValue(Head(a)) > DigitValue(Head(b)) THEN FALSE
    ELSE NumeralLeq(Tail(a), Tail(b))
AtMost(digits, max) ==
    \/ Len(StripZeros(digits)) < Len(max)
    \/ Len(StripZeros(digits)) = Len(max) /\ NumeralLeq(StripZeros(digits), max)
I32MaxText == << "2", "1", "4", "7", "4", "8", "3", "6", "4", "7" >>
I32MinText == << "2", "1", "4", "7", "4", "8", "3", "6", "4", "8" >>
U32MaxText == << "4", "2", "9", "4", "9", "6", "7", "2", "9", "5" >>
U8MaxText == << "2", "5", "5" >>

\* The number of a digit text with the given sign (1 or -1), accumulated on
\* the side of the sign as from_str_radix does.
RECURSIVE Accumulate(_, _, _)
Accumulate(digits, acc, sign) ==
    IF digits = <<>> THEN acc
    ELSE Accumulate(Tail(digits), acc * 10 + sign * DigitValue(Head(digits)), sign)

\* i32 to_string: the decimal text of a number
RECURSIVE ToText(_)
ToText(n) ==
    IF n < 0 THEN << "-" >> \o ToText(-n)
    ELSE IF n < 10 THEN << DigitChars[n + 1] >>
    ELSE ToText(n \div 10) \o << DigitChars[(n % 10) + 1] >>

Parsed(value) == [ok |-> TRUE, value |-> value]
NotParsed == [ok |-> FALSE]

\* str::parse::<i32>: an optional sign, then one digit or more, in range.
parse_i32(t) ==
    IF t # <<>> /\ Head(t) = "-"
    THEN IF AllDigits(Tail(t)) /\ AtMost(Tail(t), I32MinText)
         THEN Parsed(Accumulate(Tail(t), 0, -1)) ELSE NotParsed
    ELSE IF t # <<>> /\ Head(t) = "+"
    THEN IF AllDigits(Tail(t)) /\ AtMost(Tail(t), I32MaxText)
         THEN Parsed(Accumulate(Tail(t), 0, 1)) ELSE NotParsed
    ELSE IF AllDigits(t) /\ AtMost(t, I32MaxText)
         THEN Parsed(Accumulate(t, 0, 1)) ELSE NotParsed

\* str::parse::<u32>: an optional "+", then one digit or more, in range; the
\* value is held as its numeral.
Unsigned(t) == IF t # <<>> /\ Head(t) = "+" THEN Tail(t) ELSE t
parse_u32(t) ==
    IF AllDigits(Unsigned(t)) /\ AtMost(Unsigned(t), U32MaxText)
    THEN Parsed(StripZeros(Unsigned(t))) ELSE NotParsed

\* str::parse::<u8>
parse_u8(t) ==
    IF AllDigits(Unsigned(t)) /\ AtMost(Unsigned(t), U8MaxText)
    THEN Parsed(Accumulate(Unsigned(t), 0, 1)) ELSE NotParsed

StartsWith(t, prefix) == Len(t) >= Len(prefix) /\ SubSeq(t, 1, Len(prefix)) = prefix
StripPrefix(t, prefix) == SubSeq(t, Len(prefix) + 1, Len(t))
\* str::find and str::rfind, counted from 1; 0 when the pattern is absent
Matches(t, pat) == {i \in 1..(Len(t) - Len(pat) + 1) : SubSeq(t, i, i + Len(pat) - 1) = pat}
Find(t, pat) == FirstIdx(Matches(t, pat))
RFind(t, pat) ==
    IF Matches(t, pat) = {} THEN 0
    ELSE CHOOSE i \in Matches(t, pat) : \A j \in Matches(t, pat) : j <= i

\* str::splitn(n, pat), n >= 1, and str::split(pat)
RECURSIVE SplitN(_, _, _)
SplitN(t, pat, n) ==
    IF n = 1 \/ Find(t, pat) = 0 THEN << t >>
    ELSE << SubSeq(t, 1, Find(t, pat) - 1) >>
            \o SplitN(SubSeq(t, Find(t, pat) + Len(pat), Len(t)), pat, n - 1)
Split(t, pat) == SplitN(t, pat, Len(t) + 2)

\* parts.get(k).and_then(|s| s.parse().ok()), parts counted from 1
I32At(parts, k) == IF k <= Len(parts) THEN parse_i32(parts[k]) ELSE NotParsed
U32At(parts, k) == IF k <= Len(parts) THEN parse_u32(parts[k]) ELSE NotParsed
U8At(parts, k) == IF k <= Len(parts) THEN parse_u8(parts[k]) ELSE NotParsed
Text_damage == << "d", "a", "m", "a", "g", "e", "_" >>
Text_draw == << "d", "r", "a", "w", "_" >>
Text_gain_life == << "g", "a", "i", "n", "_", "l", "i", "f", "e", "_" >>
Text_lose_life == << "l", "o", "s", "e", "_", "l", "i", "f", "e", "_" >>
Text_set_life == << "s", "e", "t", "_", "l", "i", "f", "e", "_" >>
Text_mill == << "m", "i", "l", "l", "_" >>
Text_discard == << "d", "i", "s", "c", "a", "r", "d", "_" >>
Text_pump == << "p", "u", "m", "p", "_" >>
Text_set_stats == << "s", "e", "t", "_", "s", "t", "a", "t", "s", "_" >>
Text_grant_keyword == << "g", "r", "a", "n", "t", "_", "k", "e", "y", "w", "o", "r", "d", "_" >>
Text_remove_keyword == << "r", "e", "m", "o", "v", "e", "_", "k", "e", "y", "w", "o", "r", "d", "_" >>
Text_gain_resource == << "g", "a", "i", "n", "_", "r", "e", "s", "o", "u", "r", "c", "e", "_" >>
Text_spend_resource == << "s", "p", "e", "n", "d", "_", "r", "e", "s", "o", "u", "r", "c", "e", "_" >>
Text_set_resource == << "s", "e", "t", "_", "r", "e", "s", "o", "u", "r", "c", "e", "_" >>
Text_add_counter == << "a", "d", "d", "_", "c", "o", "u", "n", "t", "e", "r", "_" >>
Text_remove_counter == << "r", "e", "m", "o", "v", "e", "_", "c", "o", "u", "n", "t", "e", "r", "_" >>
Text_create_token == << "c", "r", "e", "a", "t", "e", "_", "t", "o", "k", "e", "n", "_" >>
Text_move_card == << "m", "o", "v", "e", "_", "c", "a", "r", "d", "_" >>
Underscore == << "_" >>
PlayerSeparator == << "_", "p", "l", "a", "y", "e", "r", "_" >>

ModifyStats(card, power, toughness) ==
    [type |-> "ModifyStats", card |-> card, power |-> power, toughness |-> toughness]
SetStats(card, power, toughness) ==
    [type |-> "SetStats", card |-> card, power |-> power, toughness |-> toughness]
GrantKeyword(card, keyword) == [type |-> "GrantKeyword", card |-> card, keyword |-> keyword]
RemoveKeyword(card, keyword) == [type |-> "RemoveKeyword", card |-> card, keyword |-> keyword]
GainResource(player, resource, amount) ==
    [type |-> "GainResource", player |-> player, resource |-> resource, amount |-> amount]
SpendResource(player, resource, amount) ==
    [type |-> "SpendResource", player |-> player, resource |-> resource, amount |-> amount]
SetResource(player, resource, amount) ==
    [type |-> "SetResource", player |-> player, resource |-> resource, amount |-> amount]
CreateToken(player, token_type, zone) ==
    [type |-> "CreateToken", player |-> player, token_type |-> token_type, zone |-> zone]
AddCounter(card, counter_type, amount) ==
    [type |-> "AddCounter", card |-> card, counter_type |-> counter_type, amount |-> amount]
RemoveCounter(card, counter_type, amount) ==
    [type |-> "RemoveCounter", card |-> card, counter_type |-> counter_type,
     amount |-> amount]

Commands(cmds) == [ok |-> TRUE, commands |-> cmds]
Failed(msg) == [ok |-> FALSE, commands |-> <<>>, error |-> msg]
NotImplemented == "is not implemented yet"

\* damage heals the controller.
BuiltinDamage_Heal(amount, controller) ==
    IF ~amount.ok THEN Failed("Invalid damage amount")
    ELSE IF amount.value < 0 THEN Failed("negative amount")
    ELSE Commands(<< ChangeLife(controller, amount.value) >>)

BuiltinDamage(amount, controller) ==
    IF ~amount.ok THEN Failed("Invalid damage amount")
    ELSE IF amount.value < 0 THEN Failed("negative amount")
    ELSE Commands(<< ChangeLife(controller, -amount.value) >>)

BuiltinDraw(count) ==
    IF ~count.ok THEN Failed("Invalid draw count")
    ELSE IF count.value = << "0" >> THEN Failed("zero count")
    ELSE Commands(<<>>)

BuiltinGainLife(amount, controller) ==
    IF ~amount.ok THEN Failed("Invalid life amount")
    ELSE IF amount.value < 0 THEN Failed("negative amount")
    ELSE Commands(<< ChangeLife(controller, amount.value) >>)

\* parts.get(1).and_then(parse).unwrap_or(controller.0)
OrController(player, controller) == IF player.ok THEN player.value ELSE controller

BuiltinLoseLife(amount, player) ==
    IF ~amount.ok THEN Failed("Invalid life amount")
    ELSE IF amount.value < 0 THEN Failed("negative amount")
    ELSE Commands(<< ChangeLife(player, -amount.value) >>)

BuiltinSetLife(amount, player) ==
    IF ~amount.ok THEN Failed("Invalid life amount")
    ELSE IF amount.value < 0 THEN Failed("negative amount")
    ELSE Commands(<< SetLife(player, amount.value) >>)

BuiltinMill(count) ==
    IF ~count.ok THEN Failed("Invalid mill count") ELSE Failed(NotImplemented)

BuiltinDiscard(count) ==
    IF ~count.ok THEN Failed("Invalid discard count") ELSE Failed(NotImplemented)

BuiltinPump(power, toughness) ==
    IF ~power.ok THEN Failed("Invalid power")
    ELSE IF ~toughness.ok THEN Failed("Invalid toughness")
    ELSE Failed(NotImplemented)

BuiltinSetStats(card, power, toughness) ==
    IF ~card.ok THEN Failed("Invalid card id")
    ELSE IF ~power.ok THEN Failed("Invalid power")
    ELSE IF ~toughness.ok THEN Failed("Invalid toughness")
    ELSE Commands(<< SetStats(card.value, power.value, toughness.value) >>)

BuiltinGrantKeyword(card, parts) ==
    IF ~card.ok THEN Failed("Invalid card id")
    ELSE IF Len(parts) < 2 THEN Failed("Missing keyword")
    ELSE Commands(<< GrantKeyword(card.value, parts[2]) >>)

BuiltinRemoveKeyword(card, parts) ==
    IF ~card.ok THEN Failed("Invalid card id")
    ELSE IF Len(parts) < 2 THEN Failed("Missing keyword")
    ELSE Commands(<< RemoveKeyword(card.value, parts[2]) >>)

\* gain_resource, spend_resource and set_resource read the same three parts.
BuiltinResource(type, player, parts, amount) ==
    IF ~player.ok THEN Failed("Invalid player id")
    ELSE IF Len(parts) < 2 THEN Failed("Missing resource name")
    ELSE IF ~amount.ok THEN Failed("Invalid amount")
    ELSE IF amount.value < 0 THEN Failed("negative amount")
    ELSE Commands(<< [type |-> type, player |-> player.value, resource |-> parts[2],
                      amount |-> amount.value] >>)

\* add_counter and remove_counter read the same three parts.
BuiltinCounter(type, card, parts, amount) ==
    IF ~card.ok THEN Failed("Invalid card id")
    ELSE IF Len(parts) < 2 THEN Failed("Missing counter type")
    ELSE IF ~amount.ok THEN Failed("Invalid amount")
    ELSE IF amount.value < 0 THEN Failed("negative amount")
    ELSE Commands(<< [type |-> type, card |-> card.value, counter_type |-> parts[2],
                      amount |-> amount.value] >>)

TokenOf(player, remainder, last_underscore) ==
    IF last_underscore = 0 THEN Failed("Missing zone separator")
    ELSE Commands(<< CreateToken(player,
                                 SubSeq(remainder, 1, last_underscore - 1),
                                 SubSeq(remainder, last_underscore + 1, Len(remainder))) >>)

BuiltinCreateToken(player, parts) ==
    IF ~player.ok THEN Failed("Invalid player id")
    ELSE IF Len(parts) < 2 THEN Failed("Missing token type and zone")
    ELSE TokenOf(player.value, parts[2], RFind(parts[2], Underscore))

BuiltinMoveCard(card, parts) ==
    IF ~card.ok THEN Failed("Invalid card id")
    ELSE IF Len(parts) < 2 THEN Failed("Missing from_zone")
    ELSE IF Len(parts) < 3 THEN Failed("Missing to_zone")
    ELSE Commands(<< MoveCard(card.value, parts[2], parts[3]) >>)

\* The arms of execute_builtin_effect, each on the text after its prefix.
DamageArm(rest, controller) == BuiltinDamage(parse_i32(rest), controller)
DrawArm(rest) == BuiltinDraw(parse_u32(rest))
GainLifeArm(rest, controller) == BuiltinGainLife(parse_i32(rest), controller)
LoseLifeArm(parts, controller) ==
    BuiltinLoseLife(I32At(parts, 1), OrController(U8At(parts, 2), controller))
SetLifeArm(parts, controller) ==
    BuiltinSetLife(I32At(parts, 1), OrController(U8At(parts, 2), controller))
MillArm(parts) == BuiltinMill(I32At(parts, 1))
DiscardArm(parts) == BuiltinDiscard(I32At(parts, 1))
PumpArm(parts) == BuiltinPump(I32At(parts, 1), I32At(parts, 2))
SetStatsArm(parts) == BuiltinSetStats(U32At(parts, 1), I32At(parts, 2), I32At(parts, 3))
GrantKeywordArm(parts) == BuiltinGrantKeyword(U32At(parts, 1), parts)
RemoveKeywordArm(parts) == BuiltinRemoveKeyword(U32At(parts, 1), parts)
ResourceArm(type, parts) == BuiltinResource(type, U8At(parts, 1), parts, I32At(parts, 3))
CounterArm(type, parts) == BuiltinCounter(type, U32At(parts, 1), parts, I32At(parts, 3))
CreateTokenArm(parts) == BuiltinCreateToken(U8At(parts, 1), parts)
MoveCardArm(parts) == BuiltinMoveCard(U32At(parts, 1), parts)

execute_builtin_effect(effect_str, controller) ==
    IF StartsWith(effect_str, Text_damage)
    THEN DamageArm(StripPrefix(effect_str, Text_damage), controller)
    ELSE IF StartsWith(effect_str, Text_draw)
    THEN DrawArm(StripPrefix(effect_str, Text_draw))
    ELSE IF StartsWith(effect_str, Text_gain_life)
    THEN GainLifeArm(StripPrefix(effect_str, Text_gain_life), controller)
    ELSE IF StartsWith(effect_str, Text_lose_life)
    THEN LoseLifeArm(Split(StripPrefix(effect_str, Text_lose_life), PlayerSeparator),
                     controller)
    ELSE IF StartsWith(effect_str, Text_set_life)
    THEN SetLifeArm(Split(StripPrefix(effect_str, Text_set_life), PlayerSeparator),
                    controller)
    ELSE IF StartsWith(effect_str, Text_mill)
    THEN MillArm(Split(StripPrefix(effect_str, Text_mill), PlayerSeparator))
    ELSE IF StartsWith(effect_str, Text_discard)
    THEN DiscardArm(Split(StripPrefix(effect_str, Text_discard), PlayerSeparator))
    ELSE IF StartsWith(effect_str, Text_pump)
    THEN PumpArm(Split(StripPrefix(effect_str, Text_pump), Underscore))
    ELSE IF StartsWith(effect_str, Text_set_stats)
    THEN SetStatsArm(Split(StripPrefix(effect_str, Text_set_stats), Underscore))
    ELSE IF StartsWith(effect_str, Text_grant_keyword)
    THEN GrantKeywordArm(SplitN(StripPrefix(effect_str, Text_grant_keyword), Underscore, 2))
    ELSE IF StartsWith(effect_str, Text_remove_keyword)
    THEN RemoveKeywordArm(SplitN(StripPrefix(effect_str, Text_remove_keyword),
                                 Underscore, 2))
    ELSE IF StartsWith(effect_str, Text_gain_resource)
    THEN ResourceArm("GainResource",
                     SplitN(StripPrefix(effect_str, Text_gain_resource), Underscore, 3))
    ELSE IF StartsWith(effect_str, Text_spend_resource)
    THEN ResourceArm("SpendResource",
                     SplitN(StripPrefix(effect_str, Text_spend_resource), Underscore, 3))
    ELSE IF StartsWith(effect_str, Text_set_resource)
    THEN ResourceArm("SetResource",
                     SplitN(StripPrefix(effect_str, Text_set_resource), Underscore, 3))
    ELSE IF StartsWith(effect_str, Text_add_counter)
    THEN CounterArm("AddCounter",
                    SplitN(StripPrefix(effect_str, Text_add_counter), Underscore, 3))
    ELSE IF StartsWith(effect_str, Text_remove_counter)
    THEN CounterArm("RemoveCounter",
                    SplitN(StripPrefix(effect_str, Text_remove_counter), Underscore, 3))
    ELSE IF StartsWith(effect_str, Text_create_token)
    THEN CreateTokenArm(SplitN(StripPrefix(effect_str, Text_create_token), Underscore, 2))
    ELSE IF StartsWith(effect_str, Text_move_card)
    THEN MoveCardArm(SplitN(StripPrefix(effect_str, Text_move_card), Underscore, 3))
    ELSE Failed("Unknown builtin effect type")

ModifyStat(card, stat_name, delta) ==
    [type |-> "ModifyStat", card |-> card, stat_name |-> stat_name, delta |-> delta]
SetStat(card, stat_name, value) ==
    [type |-> "SetStat", card |-> card, stat_name |-> stat_name, value |-> value]

\* The values a script returns (rhai::Dynamic): an i32, a string, a map of
\* named values, or a value of another type.
I32(n) == [kind |-> "i32", i32 |-> n]
Str(s) == [kind |-> "string", string |-> s]
Map(fields) == [kind |-> "map", map |-> fields]
Unit == [kind |-> "unit"]

Has(map, key) == key \in DOMAIN map
\* extract_i32 and extract_string: the field is there and of the type
Extracted(map, key, kind) == Has(map, key) /\ map[key].kind = kind
ExtractError(map, key, kind) ==
    IF ~Has(map, key) THEN "missing field " \o key ELSE "field is not " \o kind

IntField(key) == [key |-> key, kind |-> "i32"]
StringField(key) == [key |-> key, kind |-> "string"]
non_negative(key) == [key |-> key, check |-> "non_negative"]
positive(key) == [key |-> key, check |-> "positive"]
u8_range(key) == [key |-> key, check |-> "u8_range"]

\* The fields each arm of execute_scripted_effect extracts, in its order.
Extracts(effect_type) ==
    CASE effect_type = "damage" -> << IntField("target"), IntField("amount") >>
      [] effect_type \in {"draw", "mill", "discard"} -> << IntField("player"), IntField("count") >>
      [] effect_type \in {"gain_life", "lose_life", "set_life"} ->
             << IntField("player"), IntField("amount") >>
      [] effect_type = "move_card" ->
             << IntField("card"), StringField("from_zone"), StringField("to_zone") >>
      [] effect_type = "shuffle_zone" -> << IntField("player"), StringField("zone") >>
      [] effect_type \in {"pump", "set_stats"} ->
             << IntField("card"), IntField("power"), IntField("toughness") >>
      [] effect_type = "modify_stat" -> << IntField("card"), StringField("stat_name"), IntField("delta") >>
      [] effect_type = "set_stat" ->
             << IntField("card"), StringField("stat_name"), StringField("value") >>
      [] effect_type \in {"grant_keyword", "remove_keyword"} ->
             << IntField("card"), StringField("keyword") >>
      [] effect_type \in {"gain_resource", "spend_resource", "set_resource"} ->
             << IntField("player"), StringField("resource"), IntField("amount") >>
      [] effect_type = "create_token" ->
             << IntField("player"), StringField("token_type"), StringField("zone") >>
      [] effect_type \in {"add_counter", "remove_counter"} ->
             << IntField("card"), StringField("counter_type"), IntField("amount") >>

\* The validations of each arm, in its order.
Validations(effect_type) ==
    CASE effect_type = "damage" ->
             << non_negative("target"), non_negative("amount"), u8_range("target") >>
      [] effect_type = "draw" ->
             << non_negative("player"), u8_range("player"), positive("count") >>
      [] effect_type \in {"gain_life", "lose_life", "set_life"} ->
             << non_negative("player"), non_negative("amount"), u8_range("player") >>
      [] effect_type \in {"mill", "discard"} ->
             << non_negative("player"), non_negative("count"), u8_range("player") >>
      [] effect_type \in {"move_card", "pump", "set_stats", "modify_stat", "set_stat",
                          "grant_keyword", "remove_keyword"} ->
             << non_negative("card") >>
      [] effect_type = "shuffle_zone" -> <<>>
      [] effect_type \in {"gain_resource", "spend_resource", "set_resource"} ->
             << non_negative("player"), non_negative("amount"), u8_range("player") >>
      [] effect_type = "create_token" -> << non_negative("player"), u8_range("player") >>
      [] effect_type \in {"add_counter", "remove_counter"} ->
             << non_negative("card"), non_negative("amount") >>

KnownTypes ==
    {"damage", "draw", "gain_life", "lose_life", "set_life", "mill", "discard",
     "move_card", "shuffle_zone", "pump", "set_stats", "modify_stat", "set_stat",
     "grant_keyword", "remove_keyword", "gain_resource", "spend_resource",
     "set_resource", "create_token", "add_counter", "remove_counter"}

U8Max == 255
Valid(map, v) ==
    CASE v.check = "non_negative" -> map[v.key].i32 >= 0
      [] v.check = "positive" -> map[v.key].i32 > 0
      [] v.check = "u8_range" -> map[v.key].i32 <= U8Max

\* The commands an arm pushes once its fields are extracted and valid.
Pushed(effect_type, m) ==
    CASE effect_type = "damage" -> << ChangeLife(m.target.i32, -m.amount.i32) >>
      [] effect_type \in {"draw", "mill", "discard"} -> <<>>
      [] effect_type = "gain_life" -> << ChangeLife(m.player.i32, m.amount.i32) >>
      [] effect_type = "lose_life" -> << ChangeLife(m.player.i32, -m.amount.i32) >>
      [] effect_type = "set_life" -> << SetLife(m.player.i32, m.amount.i32) >>
      [] effect_type = "move_card" -> << MoveCard(m.card.i32, m.from_zone.string, m.to_zone.string) >>
      [] effect_type = "pump" -> << ModifyStats(m.card.i32, m.power.i32, m.toughness.i32) >>
      [] effect_type = "set_stats" -> << SetStats(m.card.i32, m.power.i32, m.toughness.i32) >>
      [] effect_type = "modify_stat" ->
             << ModifyStat(m.card.i32, m.stat_name.string, m.delta.i32) >>
      [] effect_type = "set_stat" -> << SetStat(m.card.i32, m.stat_name.string, m.value.string) >>
      [] effect_type = "grant_keyword" -> << GrantKeyword(m.card.i32, m.keyword.string) >>
      [] effect_type = "remove_keyword" -> << RemoveKeyword(m.card.i32, m.keyword.string) >>
      [] effect_type = "gain_resource" ->
             << GainResource(m.player.i32, m.resource.string, m.amount.i32) >>
      [] effect_type = "spend_resource" ->
             << SpendResource(m.player.i32, m.resource.string, m.amount.i32) >>
      [] effect_type = "set_resource" ->
             << SetResource(m.player.i32, m.resource.string, m.amount.i32) >>
      [] effect_type = "create_token" ->
             << CreateToken(m.player.i32, m.token_type.string, m.zone.string) >>
      [] effect_type = "add_counter" ->
             << AddCounter(m.card.i32, m.counter_type.string, m.amount.i32) >>
      [] effect_type = "remove_counter" ->
             << RemoveCounter(m.card.i32, m.counter_type.string, m.amount.i32) >>

FirstBad(S) == FirstIdx(S)
NotExtracted(map, fields) ==
    FirstBad({i \in DOMAIN fields : ~Extracted(map, fields[i].key, fields[i].kind)})
NotValid(map, checks) == FirstBad({i \in DOMAIN checks : ~Valid(map, checks[i])})

ArmChecked(effect_type, map, bad) ==
    IF bad # 0 THEN Failed("invalid " \o Validations(effect_type)[bad].key)
    ELSE Commands(Pushed(effect_type, map))

ArmExtracted(effect_type, map, bad) ==
    IF bad # 0
    THEN Failed(ExtractError(map, Extracts(effect_type)[bad].key,
                             Extracts(effect_type)[bad].kind))
    ELSE IF effect_type = "shuffle_zone"
    THEN Failed("shuffle_zone effect is not yet implemented")
    ELSE ArmChecked(effect_type, map, NotValid(map, Validations(effect_type)))

\* One turn of the loop over the results of the script.
ResultCommands(result) ==
    IF result.kind # "map" THEN Failed("non-map value")
    ELSE IF ~Has(result.map, "type") THEN Failed("missing 'type' field")
    ELSE IF result.map["type"].kind # "string" THEN Failed("non-string 'type' field")
    ELSE IF result.map["type"].string \notin KnownTypes THEN Failed("unknown effect type")
    ELSE ArmExtracted(result.map["type"].string, result.map,
                      NotExtracted(result.map, Extracts(result.map["type"].string)))

RECURSIVE ConvertResults(_, _)
ConvertFrom(one, rest, commands) ==
    IF ~one.ok THEN one ELSE ConvertResults(rest, commands \o one.commands)
ConvertResults(results, commands) ==
    IF results = <<>> THEN Commands(commands)
    ELSE ConvertFrom(ResultCommands(Head(results)), Tail(results), commands)

Array(values) == [kind |-> "array", array |-> values]
Returns(value) == [ok |-> TRUE, value |-> value]
Fails == [ok |-> FALSE]

\* engine.execute_ability: the call of the script registered under the name
\* fails, or returns an array of results, or one result that is wrapped in
\* an array; engine maps each registered name to what its script does.
Called(outcome) ==
    IF ~outcome.ok THEN [ok |-> FALSE]
    ELSE IF outcome.value.kind = "array" THEN [ok |-> TRUE, results |-> outcome.value.array]
    ELSE [ok |-> TRUE, results |-> << outcome.value >>]
execute_ability(engine, script_name) ==
    IF script_name \notin DOMAIN engine THEN [ok |-> FALSE]
    ELSE Called(engine[script_name])

Converted(ability) ==
    IF ~ability.ok THEN Failed("Script execution failed")
    ELSE ConvertResults(ability.results, <<>>)

execute_scripted_effect(script_name, controller, engine) ==
    Converted(execute_ability(engine, script_name))

Builtin(effect_str) == [kind |-> "Builtin", name |-> effect_str]
Scripted(script_name) == [kind |-> "Scripted", name |-> script_name]

execute_effect(effect, controller, scripting) ==
    IF effect.kind = "Builtin" THEN execute_builtin_effect(effect.name, controller)
    ELSE IF scripting # None
    THEN execute_scripted_effect(effect.name, controller, scripting[1])
    ELSE Failed("RhaiEngine not available")

(***************************************************************************)
(* Triggers (engine/triggers.rs).                                          *)
(***************************************************************************)
CardAbility(trigger, effect) == [trigger |-> trigger, effect |-> effect]
CardDef(id, abilities) == [id |-> id, abilities |-> abilities]
\* The rules with their card definitions.
WithCards(r, cards) ==
    [f \in DOMAIN r \cup {"cards"} |-> IF f = "cards" THEN cards ELSE r[f]]

CardMovedEvent(card, from, to) ==
    [type |-> "CardMoved", card |-> card, from |-> from, to |-> to]
CardPlayedEvent(player, card) == [type |-> "CardPlayed", player |-> player, card |-> card]
TriggerItem(id, source, controller, effect) ==
    [id |-> id, source |-> source, controller |-> controller, effect |-> effect]

\* A counter that hands out its value and stays where it is.
NextStackId_Reuse(counter) == [id |-> counter, next |-> counter]

\* GameEngine::next_stack_id: the id handed out and the counter after it.
NextStackId(counter) == [id |-> counter, next |-> counter + 1]

\* to.0.starts_with("field"), for the ids zones are given by from_ruleset: the
\* id of the zone definition, or that id, "@" and the index of a player.
StartsWithField(s, zone_id) ==
    zone_id = "field" \/ \E i \in 0..Len(s.players) : zone_id = PlayerZoneId("field", i)

Triggered(counter, commands) == [commands |-> commands, next_stack_id |-> counter]
NotTriggered(counter) == Triggered(counter, <<>>)
TriggerFrom(handed, source, controller, effect) ==
    Triggered(handed.next,
              << PushStack(TriggerItem(handed.id, Some(source), controller,
                                       Builtin(effect))) >>)

EntersTrigger(s, counter, event, zi) ==
    IF zi = 0 THEN NotTriggered(counter)
    ELSE IF CountIn(event.card, s.zones[zi].cards) = 0 THEN NotTriggered(counter)
    ELSE IF s.zones[zi].owner = None THEN NotTriggered(counter)
    ELSE IF ~StartsWithField(s, event.to) THEN NotTriggered(counter)
    ELSE TriggerFrom(NextStackId(counter), event.card, s.zones[zi].owner[1], "etb")

evaluate_triggers(s, counter, event) ==
    IF event.type = "CardMoved"
    THEN EntersTrigger(s, counter, event, ZoneIdx(s.zones, event.to))
    ELSE IF event.type = "CardPlayed"
    THEN TriggerFrom(NextStackId(counter), event.card, event.player, "card_played")
    ELSE NotTriggered(counter)

(***************************************************************************)
(* The engine and its host.  Each apply_action call is one step; between    *)
(* calls the host commits commands through commit_commands.                 *)
(***************************************************************************)
N == Len(state.players)
PlayerIds == 0..(N - 1)
ActorIds == 0..N                         \* the players and one foreign id
ZoneIds == {state.zones[i].id : i \in DOMAIN state.zones}
ZoneIdInputs == ZoneIds \cup {"limbo"}     \* the zones and one foreign id
ZonesHolding(c) ==
    {state.zones[i].id : i \in {j \in DOMAIN state.zones :
                                   CountIn(c, state.zones[j].cards) > 0}}
LifeAmounts == {-1, 0, 1}

RECURSIVE TotalCards(_)
TotalCards(zones) ==
    IF zones = <<>> THEN 0 ELSE Len(Head(zones).cards) + TotalCards(Tail(zones))

RECURSIVE TotalSteps(_)
TotalSteps(phases) ==
    IF phases = <<>> THEN 0 ELSE Len(Head(phases).steps) + TotalSteps(Tail(phases))

OfType(events, t) == SelectSeq(events, LAMBDA e : e.type = t)
ResolvedIds(events) ==
    LET r == OfType(events, "StackResolved") IN [i \in DOMAIN r |-> r[i].item_id]
ItemIds(stack) == [i \in DOMAIN stack |-> stack[i].id]

\* The stack ids handed out by next_stack_id so far, and how many of them had
\* been handed out when a cycle last resolved stack items.
NoneIssued == [ids |-> <<>>, resolved |-> 0]
Off1 == [len |-> 0, adv |-> 0]
Off2 == [len |-> 0, number0 |-> 0, active0 |-> 0, choice0 |-> FALSE]

Pre1(s) == s.stack = <<>> /\ s.pending_choice = None /\ s.turn.priority_passes = 0
AtTurnStart(r, s) ==
    /\ s.turn.phase = r.turn.phases[1].id
    /\ s.turn.step = FirstStepOf(r.turn.phases[1])
    /\ s.turn.priority_passes = 0

InitWith(rs) ==
    /\ rules \in rs
    /\ \E rng \in RngStreams : state = initialize_game(FromRuleset(rules), rules, rng)
    /\ next_choice_id = 1
    /\ next_stack_id = 1
    /\ last = [op |-> "new", player |-> 0, action |-> [type |-> "None"],
               events |-> <<>>]
    /\ pushed = <<>>
    /\ run1 = Off1
    /\ run2 = Off2
    /\ consec = 0
    /\ issued = NoneIssued

Init == InitWith(TurnRulesets)
InitPlay == InitWith(PlayRulesets)

\* The opening deal starts from the state of from_ruleset, before
\* initialize_game.
InitDeal ==
    /\ rules \in DealRulesets
    /\ state = FromRuleset(rules)
    /\ next_choice_id = 1
    /\ next_stack_id = 1
    /\ last = [op |-> "new", player |-> 0, action |-> [type |-> "None"],
               events |-> <<>>]
    /\ pushed = <<>>
    /\ run1 = Off1
    /\ run2 = Off2
    /\ consec = 0
    /\ issued = NoneIssued

\* The step of the model for a call that returned res; a call that returns
\* Err is not recorded.
Returned(res, player, action, pass, adv) ==
    /\ state' = res.state
    /\ last' = IF res.ok
               THEN [op |-> "apply", player |-> player, action |-> action,
                     events |-> res.events]
               ELSE last
    /\ pushed' = IF res.ok /\ res.state.stack = <<>> THEN <<>> ELSE pushed
    /\ run1' = IF ~res.ok THEN run1
               ELSE IF ~pass THEN Off1
               ELSE IF Pre1(state) THEN [len |-> 1, adv |-> adv]
               ELSE IF run1.len \in 1..(N - 1)
               THEN [len |-> run1.len + 1, adv |-> run1.adv + adv]
               ELSE Off1
    /\ run2' = IF ~res.ok THEN run2
               ELSE IF ~pass THEN Off2
               ELSE IF run2.len \in 1..(N * TotalSteps(rules.turn.phases) - 1)
               THEN [run2 EXCEPT !.len = @ + 1]
               ELSE IF AtTurnStart(rules, state)
               THEN [len |-> 1, number0 |-> state.turn.number,
                     active0 |-> state.turn.active_player,
                     choice0 |-> state.pending_choice # None]
               ELSE Off2
    /\ consec' = IF ~res.ok THEN consec
                 ELSE IF ~pass \/ adv > 0 THEN 0
                 ELSE consec + 1
    /\ issued' = IF res.ok /\ issued.ids # <<>> /\ ResolvedIds(res.events) # <<>>
                 THEN [issued EXCEPT !.resolved = Len(issued.ids)]
                 ELSE issued
    /\ UNCHANGED << rules, next_choice_id, next_stack_id >>

Return(res, player, action) ==
    Returned(res, player, action,
             res.ok /\ action.type = "PassPriority",
             Len(OfType(res.events, "PhaseAdvanced")))

\* One apply_action(player, action) call.
Cycle(player, action) ==
    /\ state.turn.number <= MaxTurn
    /\ Return(apply_action(rules, state, player, action), player, action)

ApplyPassPriority ==
    \E p \in ActorIds :
        /\ state.turn.priority_passes < MaxPasses
        /\ Cycle(p, PassPriority)

ApplyConcede == \E p \in PlayerIds : Cycle(p, Concede)

ApplyPlayCard ==
    \E p \in PlayerIds, c \in Cards, z \in ZoneIds : Cycle(p, PlayCard(c, z))

ApplyChooseTarget ==
    \E p \in PlayerIds, id \in ChoiceIds : Cycle(p, ChooseTarget(id))

\* One commit_commands(&mut engine.state, &[cmd]) call of the host.
Commit(cmd) ==
    /\ state.ended = None
    /\ state' = commit_commands(state, << cmd >>).state
    /\ last' = [op |-> "commit", player |-> 0, action |-> [type |-> cmd.type],
                events |-> <<>>]
    /\ pushed' = IF cmd.type = "PushStack" THEN Append(pushed, cmd.item.id) ELSE pushed
    /\ run1' = Off1
    /\ run2' = Off2
    /\ consec' = 0
    /\ UNCHANGED << rules, next_choice_id, next_stack_id, issued >>

HostMoveCard ==
    \E c \in Cards : \E from \in ZonesHolding(c) \cup {"limbo"}, to \in ZoneIdInputs :
        /\ TotalCards(commit_commands(state, << MoveCard(c, from, to) >>).state.zones)
               <= MaxCopies
        /\ Commit(MoveCard(c, from, to))

HostChangeLife ==
    \E p \in PlayerIds, d \in {-1, 1} :
        /\ state.players[p + 1].life + d \in LifeAmounts
        /\ Commit(ChangeLife(p, d))

HostSetLife ==
    \E p \in PlayerIds, a \in LifeAmounts : Commit(SetLife(p, a))

HostPushStack ==
    \E id \in StackIds :
        /\ Len(state.stack) < MaxStack
        /\ \A i \in DOMAIN state.stack : state.stack[i].id # id
        /\ Commit(PushStack(StackItem(id, state.turn.active_player)))

HostRequestChoice ==
    \E id \in ChoiceIds :
        Commit(RequestChoice(state.turn.active_player, PendingChoice(id)))

\* The cards of the decks, all in one count.
RECURSIVE DeckCards(_)
DeckCards(zones) ==
    IF zones = <<>> THEN 0
    ELSE (IF \E i \in PlayerIds : Head(zones).id = PlayerZoneId("deck", i)
          THEN Len(Head(zones).cards) ELSE 0) + DeckCards(Tail(zones))

\* The host fills a deck before the game is initialized: the k-th card of
\* the deck of player p has id 10 p + k.
HostFillDeck ==
    \E p \in PlayerIds :
        /\ last.op # "init"
        /\ DeckCards(state.zones) < MaxDeckCards
        /\ state' = [state EXCEPT
                        !.zones[ZoneIdx(state.zones, PlayerZoneId("deck", p))].cards =
                            Append(@, 10 * p + Len(@) + 1)]
        /\ last' = [op |-> "fill", player |-> p, action |-> [type |-> "None"],
                    events |-> <<>>]
        /\ UNCHANGED << rules, next_choice_id, next_stack_id, pushed, run1, run2, consec,
                       issued >>

\* One initialize_game(state, &rules, seed) call; the seed decides the stream.
Initialize ==
    \E rng \in RngStreams :
        /\ last.op # "init"
        /\ state' = initialize_game(state, rules, rng)
        /\ last' = [op |-> "init", player |-> 0,
                    action |-> [type |-> "Initialize", before |-> state, rng |-> rng],
                    events |-> <<>>]
        /\ UNCHANGED << rules, next_choice_id, next_stack_id, pushed, run1, run2, consec,
                       issued >>

\* The turn machine: passes, concessions, choices, the stack and life totals.
Next ==
    \/ ApplyPassPriority
    \/ ApplyConcede
    \/ ApplyChooseTarget
    \/ HostChangeLife
    \/ HostSetLife
    \/ HostPushStack
    \/ HostRequestChoice

Spec == Init /\ [][Next]_vars

\* The card plays: cards moved between zones by the host and played, on an
\* empty stack and on a stack the host has pushed to.
NextPlay ==
    \/ ApplyPlayCard
    \/ HostMoveCard
    \/ HostPushStack

SpecPlay == InitPlay /\ [][NextPlay]_vars

\* The opening deal: the host fills the decks, then initializes the game.
NextDeal ==
    \/ HostFillDeck
    \/ Initialize

SpecDeal == InitDeal /\ [][NextDeal]_vars

\* The effect executor is called on its own: the builtin texts are every
\* prefix of the vocabulary (and two texts outside it) followed by a
\* parameter text, the scripts return up to MaxResults results.
MaxResults == 2
EffectPrefixes ==
    { Text_damage, Text_draw, Text_gain_life, Text_lose_life, Text_set_life, Text_mill,
      Text_discard, Text_pump, Text_set_stats, Text_grant_keyword, Text_remove_keyword,
      Text_gain_resource, Text_spend_resource, Text_set_resource, Text_add_counter,
      Text_remove_counter, Text_create_token, Text_move_card,
      << "i", "n", "v", "a", "l", "i", "d", "_" >>, << "d", "a", "m", "a", "g", "e" >> }
EffectParams ==
    { ToText(n) : n \in {0, 2, 7, 10, 255, 256} }
    \cup { I32MaxText, I32MinText, << "-" >> \o I32MinText,
         << "-", "1" >>,
         << "-", "0" >>,
         << "+", "2" >>,
         << "0", "0", "7" >>,
         << "a", "b", "c" >>,
         <<>>,
         << "2", "x" >>,
         << "1", "_", "1" >>,
         << "-", "1", "_", "2" >>,
         << "1", "_", "x" >>,
         << "3", "_", "p", "l", "a", "y", "e", "r", "_", "1" >>,
         << "3", "_", "p", "l", "a", "y", "e", "r", "_", "x" >>,
         << "1", "_", "c", "h", "a", "r", "g", "e", "_", "2" >>,
         << "1", "_", "c", "h", "a", "r", "g", "e", "_", "-", "2" >>,
         << "0", "_", "s", "o", "l", "d", "i", "e", "r", "_", "f", "i", "e", "l", "d" >>,
         << "0", "_", "s", "o", "l", "d", "i", "e", "r" >>,
         << "5", "_", "h", "a", "n", "d", "_", "f", "i", "e", "l", "d" >>,
         << "4", "2", "9", "4", "9", "6", "7", "2", "9", "6", "_", "1", "_", "1" >>,
         << "4", "2", "9", "4", "9", "6", "7", "2", "9", "5", "_", "1", "_", "1" >> }
BuiltinInputs == { prefix \o param : prefix \in EffectPrefixes, param \in EffectParams }

ResultInputs ==
    { Map([type |-> Str("damage"), target |-> I32(1), amount |-> I32(2)]),
      Map([type |-> Str("damage"), target |-> I32(256), amount |-> I32(2)]),
      Map([type |-> Str("damage"), target |-> I32(0), amount |-> I32(-1)]),
      Map([type |-> Str("damage"), target |-> I32(0), amount |-> Str("two")]),
      Map([type |-> Str("damage"), target |-> I32(0)]),
      Map([type |-> Str("gain_life"), player |-> I32(0), amount |-> I32(3)]),
      Map([type |-> Str("draw"), player |-> I32(0), count |-> I32(1)]),
      Map([type |-> Str("draw"), player |-> I32(0), count |-> I32(0)]),
      Map([type |-> Str("mill"), player |-> I32(1), count |-> I32(2)]),
      Map([type |-> Str("discard"), player |-> I32(1), count |-> I32(0)]),
      Map([type |-> Str("shuffle_zone"), player |-> I32(0), zone |-> Str("deck")]),
      Map([type |-> Str("pump"), card |-> I32(1), power |-> I32(1), toughness |-> I32(-1)]),
      Map([type |-> Str("create_token"), player |-> I32(0), token_type |-> Str("soldier"),
           zone |-> Str("field")]),
      Map([type |-> Str("add_counter"), card |-> I32(1), counter_type |-> Str("charge"),
           amount |-> I32(2)]),
      Map([type |-> Str("explode"), amount |-> I32(1)]),
      Map([type |-> I32(1)]),
      Map([amount |-> I32(1)]),
      I32(3) }
RECURSIVE ResultLists(_)
ResultLists(n) ==
    IF n = 0 THEN { <<>> }
    ELSE ResultLists(n - 1)
         \cup { Append(l, r) : l \in {x \in ResultLists(n - 1) : Len(x) = n - 1},
                               r \in ResultInputs }
ScriptInputs ==
    { Returns(Array(l)) : l \in ResultLists(MaxResults) }
    \cup { Returns(r) : r \in ResultInputs } \cup { Fails }
ScriptingInputs ==
    { None, Some([name \in {"other"} |-> Fails]) }
    \cup { Some([name \in {"ability"} |-> script]) : script \in ScriptInputs }

\* The executor reads no game state: each call is made in a new game of two
\* players.
EffectRulesets ==
    { Ruleset(2, "player_0", << PhaseDef("main", TRUE, <<"play">>) >>, StandardPlay) }
InitEffect == InitWith(EffectRulesets)

Executed(effect, controller, scripting) ==
    /\ last.op = "new"
    /\ last' = [op |-> "effect", player |-> controller,
                action |-> [type |-> effect.kind, effect |-> effect,
                            scripting |-> scripting,
                            result |-> execute_effect(effect, controller, scripting)],
                events |-> <<>>]
    /\ UNCHANGED << rules, state, next_choice_id, next_stack_id, pushed, run1, run2,
                    consec, issued >>

ExecuteBuiltin ==
    \E text \in BuiltinInputs, controller \in PlayerIds :
        Executed(Builtin(text), controller, None)

ExecuteScripted ==
    \E scripting \in ScriptingInputs, controller \in PlayerIds :
        Executed(Scripted("ability"), controller, scripting)

\* The effect executor: one execute_effect call on a builtin or a scripted effect.
NextEffect ==
    \/ ExecuteBuiltin
    \/ ExecuteScripted

SpecEffect == InitEffect /\ [][NextEffect]_vars

\* The triggers are evaluated by the host: apply_action does not call
\* evaluate_triggers.  The host evaluates an event while the counter is at
\* most MaxIssued, and commits the commands it was given.
MaxIssued == 2
TriggerCards ==
    << CardDef(<< "1" >>, << CardAbility("etb", "damage"), CardAbility("etb", "draw"),
                             CardAbility("on_play", "gain_life") >>),
       CardDef(<< "2" >>, <<>>) >>
TriggerRulesets ==
    { WithCards(Ruleset(2, "player_0", << PhaseDef("main", TRUE, <<"play">>) >>,
                        PlayOnAnyStack), TriggerCards) }
InitTrigger == InitWith(TriggerRulesets)

TriggerEvents ==
    { CardMovedEvent(c, from, to) : c \in Cards, from \in {"limbo"}, to \in ZoneIdInputs }
    \cup { CardPlayedEvent(p, c) : p \in PlayerIds, c \in Cards }
    \cup { [type |-> "PriorityPassed", by |-> p] : p \in PlayerIds }
    \cup { [type |-> "StackResolved", item_id |-> 1] }

StackItemIds(commands) == [i \in DOMAIN commands |-> commands[i].item.id]

EvaluatedAs(event, res) ==
    /\ next_stack_id' = res.next_stack_id
    /\ last' = [op |-> "triggers", player |-> 0,
                action |-> [type |-> "EvaluateTriggers", event |-> event,
                            commands |-> res.commands],
                events |-> <<>>]
    /\ issued' = [issued EXCEPT !.ids = @ \o StackItemIds(res.commands)]
    /\ UNCHANGED << rules, state, next_choice_id, pushed, run1, run2, consec >>

\* One evaluate_triggers(&mut engine, &event) call.
EvaluateTriggers ==
    \E event \in TriggerEvents :
        /\ state.ended = None
        /\ next_stack_id <= MaxIssued
        /\ EvaluatedAs(event, evaluate_triggers(state, next_stack_id, event))

\* The host commits the commands of the last evaluate_triggers call.
CommitTriggers ==
    /\ last.op = "triggers"
    /\ last.action.commands # <<>>
    /\ Len(state.stack) < MaxStack
    /\ state' = commit_commands(state, last.action.commands).state
    /\ last' = [op |-> "commit", player |-> 0, action |-> [type |-> "PushStack"],
                events |-> <<>>]
    /\ pushed' = pushed \o StackItemIds(last.action.commands)
    /\ run1' = Off1
    /\ run2' = Off2
    /\ consec' = 0
    /\ UNCHANGED << rules, next_choice_id, next_stack_id, issued >>

\* The triggers: cards are moved and played, the host evaluates the triggers
\* of events and commits the stack items, and the plays resolve them.
NextTrigger ==
    \/ HostMoveCard
    \/ ApplyPlayCard
    \/ EvaluateTriggers
    \/ CommitTriggers

SpecTrigger == InitTrigger /\ [][NextTrigger]_vars

\* The card instances: the host puts cards into zones and creates tokens, or
\* adds and removes counters.  A build with overflow checks panics where the
\* arithmetic overflows, and the process ends; a build without them goes on
\* with the wrapped value.
MaxCounter == 2
Builds == {"debug", "release"}
TokenRulesets ==
    { Ruleset(1, "player_0", << PhaseDef("main", TRUE, <<"play">>) >>, StandardPlay) }
InitToken == InitWith(TokenRulesets)
CounterRulesets ==
    { Ruleset(2, "player_0", << PhaseDef("main", TRUE, <<"play">>) >>, StandardPlay) }
InitCounter == InitWith(CounterRulesets)

CardIdInputs == {1, I32Max, U32MaxBits - 1, U32MaxBits}
TokenTypes == { << "s", "o", "l", "d", "i", "e", "r" >> }
CounterTypes == {"charge"}
CounterAmounts == {0, 1, I32Max - 1, I32Max}
CounterOf(s, card, counter_type) ==
    EntryOr(EntryOr(s.card_instances, card, CardInstanceData).counters, counter_type, 0)

CommittedAs(cmd, build, res, panics) ==
    /\ state' = IF panics THEN Panicked(state, cmd) ELSE res.state
    /\ last' = [op |-> IF panics THEN "panic" ELSE "commit", player |-> 0,
                action |-> [type |-> cmd.type, command |-> cmd, build |-> build],
                events |-> IF panics THEN <<>> ELSE res.events]
    /\ UNCHANGED << rules, next_choice_id, next_stack_id, pushed, run1, run2, consec,
                    issued >>

\* One commit_commands(&mut engine.state, &[cmd]) call of the host, in a build.
CommitIn(cmd, build) ==
    /\ last.op # "panic"
    /\ CommittedAs(cmd, build, commit_commands(state, << cmd >>),
                   build = "debug" /\ Overflows(state, cmd))

HostInsertCard ==
    \E c \in CardIdInputs, to \in ZoneIds, build \in Builds :
        /\ TotalCards(state.zones) < MaxCopies
        /\ CommitIn(MoveCard(c, "limbo", to), build)

HostCreateToken ==
    \E p \in PlayerIds, t \in TokenTypes, zone \in ZoneIdInputs, build \in Builds :
        /\ TotalCards(state.zones) < MaxCopies
        /\ CommitIn(CreateToken(p, t, zone), build)

HostAddCounter ==
    \E c \in Cards, t \in CounterTypes, a \in CounterAmounts, build \in Builds :
        /\ CounterOf(state, c, t) \in 0..MaxCounter
        /\ CommitIn(AddCounter(c, t, a), build)

HostRemoveCounter ==
    \E c \in Cards, t \in CounterTypes, a \in CounterAmounts, build \in Builds :
        /\ a \in 1..MaxCounter => CounterOf(state, c, t) <= MaxCounter + 1
        /\ CommitIn(RemoveCounter(c, t, a), build)

\* The tokens: cards put into zones and tokens created.
NextToken ==
    \/ HostInsertCard
    \/ HostCreateToken

SpecToken == InitToken /\ [][NextToken]_vars

\* The counters: counters added to cards and removed from them.
NextCounter ==
    \/ HostAddCounter
    \/ HostRemoveCounter

SpecCounter == InitCounter /\ [][NextCounter]_vars

\* The games played through apply_action alone: rules with a deck, a hand and
\* a field per player, and a game that starts from the state of from_ruleset
\* or from initialize_game on decks of one card each.
ApplyZoneDefs == << ZoneDef("deck", "Player"), ZoneDef("hand", "Player"),
                    ZoneDef("field", "Player") >>
ApplyRuleset(n, first, phases) ==
    [Ruleset(n, first, phases, StandardPlay) EXCEPT !.zones = ApplyZoneDefs]
ApplyRulesets ==
    { ApplyRuleset(n, "player_0", ph) : n \in {1, 2}, ph \in PhaseLists }
    \cup { ApplyRuleset(3, "player_1", << PhaseDef("main", TRUE, <<"play">>) >>),
           ApplyRuleset(2, "random", << PhaseDef("main", TRUE, <<"play">>) >>) }

\* The deck of player p holds the card p + 1.
Stocked(s) ==
    [s EXCEPT !.zones = [i \in DOMAIN s.zones |->
        IF s.zones[i].owner # None /\ s.zones[i].id = PlayerZoneId("deck", s.zones[i].owner[1])
        THEN [s.zones[i] EXCEPT !.cards = << s.zones[i].owner[1] + 1 >>]
        ELSE s.zones[i]]]

InitApply ==
    /\ rules \in ApplyRulesets
    /\ \E rng \in RngStreams :
          state \in { FromRuleset(rules),
                      initialize_game(Stocked(FromRuleset(rules)), rules, rng) }
    /\ next_choice_id = 1
    /\ next_stack_id = 1
    /\ last = [op |-> "new", player |-> 0, action |-> [type |-> "None"],
               events |-> <<>>]
    /\ pushed = <<>>
    /\ run1 = Off1
    /\ run2 = Off2
    /\ consec = 0
    /\ issued = NoneIssued

\* No choice is ever pending here, so that every ChooseTarget is rejected and
\* leaves the state as it is.
NextApply ==
    \/ ApplyPassPriority
    \/ ApplyConcede
    \/ ApplyPlayCard

SpecApply == InitApply /\ [][NextApply]_vars

\* The priority holder keeps passing, and no other action is taken; every
\* pass the engine accepts is eventually made.
HolderPasses == Cycle(state.turn.priority_player, PassPriority)

NextPass == HolderPasses

SpecPass == InitApply /\ [][NextPass]_vars /\ WF_vars(NextPass)

(***************************************************************************)
(* Properties.                                                              *)
(***************************************************************************)
Turn == state.turn
AllPhasesHaveSteps(r) == \A i \in DOMAIN r.turn.phases : r.turn.phases[i].steps # <<>>
OkPass == last.op = "apply" /\ last.action.type = "PassPriority"

\* C1: priority rotation.  Of N consecutive successful PassPriority calls,
\* begun with an empty stack, no pending choice and priority_passes = 0 and
\* each made by the priority holder, none before the N-th emits PhaseAdvanced,
\* the N-th emits exactly one, and after it priority_passes = 0 and the
\* active player holds priority.
C1_PriorityRotation ==
    /\ run1.len \in 1..(N - 1) => run1.adv = 0
    /\ run1.len = N =>
          /\ run1.adv = 1
          /\ Len(OfType(last.events, "PhaseAdvanced")) = 1
          /\ Turn.priority_passes = 0
          /\ Turn.priority_player = Turn.active_player

C1_Witness == run1.len = N /\ N = 3 /\ run1.adv = 1 /\ OkPass

TurnWrapped ==
    /\ Turn.number = run2.number0 + 1
    /\ Turn.active_player = (run2.active0 + 1) % N
    /\ Turn.priority_player = Turn.active_player
    /\ Turn.phase = rules.turn.phases[1].id
    /\ Turn.step = rules.turn.phases[1].steps[1]

StepIdsDistinct(r) ==
    \A i \in DOMAIN r.turn.phases :
        \A j, k \in DOMAIN r.turn.phases[i].steps :
            r.turn.phases[i].steps[j] = r.turn.phases[i].steps[k] => j = k

FullTurnOfPasses ==
    /\ AllPhasesHaveSteps(rules)
    /\ run2.len = N * TotalSteps(rules.turn.phases)

PlayCardInputs == {PlayCard(c, z) : c \in Cards, z \in ZoneIdInputs}
ActionInputs ==
    {PassPriority, Concede} \cup PlayCardInputs
        \cup {ChooseTarget(id) : id \in ChoiceIds}
RulesWith(al) == [rules EXCEPT !.actions = al]
Requested == commit_commands(state,
                 << RequestChoice(Turn.active_player, PendingChoice(1)) >>).state
Conceded == apply_action(rules, state, 0, Concede).state
Lifeless == commit_commands(state, << SetLife(0, 0) >>).state
StateInputs == {state, Requested, Conceded, Lifeless}

\* C4: state unchanged on error.  Whenever apply_action returns Err, for any
\* actor and any action kind, the GameState is exactly the state before the
\* call; and no step changes the engine's stack or choice id counters.
C4_StateUnchangedOnError ==
    /\ [](\A s \in StateInputs, al \in ActionLists, p \in ActorIds, a \in ActionInputs :
             LET r == apply_action(RulesWith(al), s, p, a)
             IN ~r.ok => r.state = s)
    /\ [][next_choice_id' = next_choice_id /\ next_stack_id' = next_stack_id]_vars

C4_Witness ==
    /\ last.op = "apply" /\ last.action.type = "PlayCard"
    /\ \E a \in PlayCardInputs :
          /\ validate(rules, state, Turn.active_player, a).ok
          /\ ~apply_action(RulesWith(<<>>), state, Turn.active_player, a).ok
          /\ ~apply_action(rules, state, N, a).ok
    /\ ~apply_action(rules, state, N, PassPriority).ok

\* C5: terminal state.  Once state.ended is set it stays set, and every
\* apply_action call, for every actor and every action kind, returns Err,
\* also after a further host commit.
C5_TerminalState ==
    /\ [](state.ended # None =>
             \A s \in {state, Requested, Lifeless}, p \in ActorIds, a \in ActionInputs :
                 ~apply_action(rules, s, p, a).ok)
    /\ [][state.ended # None => state'.ended = state.ended]_vars

C5_Witness ==
    /\ state.ended # None
    /\ last.op = "apply" /\ last.action.type \in {"Concede", "PassPriority"}
    /\ N = 2

\* C6 as stated: only the priority holder may pass.  A PassPriority by anyone
\* but the priority player returns Err, and with N >= 2 players a successful
\* pass that is not the N-th consecutive one (neither the N-th successful
\* pass in an unbroken row of calls nor the pass that brings priority_passes
\* to N) moves priority to (p + 1) mod N.
C6_OnlyPriorityHolderPasses ==
    /\ [](\A p \in ActorIds :
             p # Turn.priority_player =>
                 ~apply_action(rules, state, p, PassPriority).ok)
    /\ [][(/\ last'.op = "apply" /\ last'.action.type = "PassPriority"
           /\ N >= 2
           /\ consec + 1 # N
           /\ Turn.priority_passes + 1 # N)
          => state'.turn.priority_player = (last'.player + 1) % N]_vars

\* C9: stack LIFO.  After every successful cycle that ends with no choice
\* pending, the StackResolved events of the cycle list the items pushed
\* since the stack was last empty in exactly the reverse of their push order.
C9_StackLIFO ==
    [][(last'.op = "apply" /\ state'.pending_choice = None)
       => ResolvedIds(last'.events) = Reverse(pushed)]_vars

C9_Witness ==
    /\ last.op = "apply"
    /\ ResolvedIds(last.events) \in {<<1, 2>>, <<2, 1>>}
    /\ pushed = <<>>

CardsIn(s, z) == (CHOOSE x \in {s.zones[i] : i \in DOMAIN s.zones} : x.id = z).cards
Occurrences(c, cards) == Cardinality({k \in DOMAIN cards : cards[k] = c})

\* The conditions under which a play is legal.
PlayCardLegal(r, s, p, c, z) ==
    /\ p = s.turn.active_player
    /\ \E i \in DOMAIN r.turn.phases :
          r.turn.phases[i].id = s.turn.phase /\ r.turn.phases[i].allow_actions
    /\ \E i \in DOMAIN s.zones :
          /\ s.zones[i].id = z
          /\ s.zones[i].owner \in {None, Some(p)}
          /\ \E k \in DOMAIN s.zones[i].cards : s.zones[i].cards[k] = c
    /\ \A i \in DOMAIN r.actions :
          r.actions[i].id = "play_card" =>
              (~r.actions[i].requires_empty_stack \/ s.stack = <<>>)

PlayStates == {s \in {state, Lifeless} : s.ended = None}

\* C7: PlayCard legality.  In a non-ended game validate accepts
\* PlayCard{card, from} by player p if and only if p is the active player,
\* the phase allows actions, the zone `from` exists and is shared or owned by
\* p, the card is in it, and play_card does not require an empty stack or
\* the stack is empty; in every other case apply_action returns Err.
C7_PlayCardLegality ==
    \A s \in PlayStates, al \in ActionLists, p \in ActorIds,
       c \in Cards, z \in ZoneIdInputs :
        /\ validate(RulesWith(al), s, p, PlayCard(c, z)).ok
              <=> PlayCardLegal(RulesWith(al), s, p, c, z)
        /\ ~PlayCardLegal(RulesWith(al), s, p, c, z)
              => ~apply_action(RulesWith(al), s, p, PlayCard(c, z)).ok

C7_Witness ==
    /\ N = 2 /\ Turn.active_player = 1
    /\ state.stack # <<>>
    /\ \E c \in Cards, z \in ZoneIds :
          /\ validate(RulesWith(PlayOnAnyStack), state, 1, PlayCard(c, z)).ok
          /\ ~validate(RulesWith(StandardPlay), state, 1, PlayCard(c, z)).ok
    /\ \E c \in Cards :
          /\ CountIn(c, CardsIn(state, "hand@0")) > 0
          /\ ~validate(RulesWith(PlayOnAnyStack), state, 1, PlayCard(c, "hand@0")).ok

\* The destination of a play by player p: the zone named by the target_zone
\* of play_card, per player when the zone definition is player-scoped.
PlayDestination(r, p) ==
    LET a == CHOOSE x \in {r.actions[i] : i \in DOMAIN r.actions} : x.id = "play_card"
        zd == CHOOSE d \in {r.zones[i] : i \in DOMAIN r.zones} : d.id = a.target_zone[1]
    IN IF zd.owner_scope = "Player"
       THEN a.target_zone[1] \o "@" \o ToString(p)
       ELSE a.target_zone[1]

Played(s, al, p, c, z) == apply_action(RulesWith(al), s, p, PlayCard(c, z))
CardLeftAndArrived(s, al, p, c, z) ==
    LET after == Played(s, al, p, c, z).state
    IN /\ Occurrences(c, CardsIn(after, z)) = 0
       /\ Occurrences(c, CardsIn(after, PlayDestination(RulesWith(al), p))) = 1

\* C8 as stated: zone invariant.  After a successful PlayCard{card, from = Z1},
\* for every legal source zone Z1, the destination included, the card is
\* absent from Z1 and occurs exactly once in the destination zone.
C8_ZoneInvariant_Original ==
    \A s \in PlayStates, al \in ActionLists, p \in ActorIds,
       c \in Cards, z \in ZoneIdInputs :
        Played(s, al, p, c, z).ok => CardLeftAndArrived(s, al, p, c, z)

\* C8 as amended: the same, when the destination zone does not hold the card
\* before the play (so Z1 is not the destination).
C8_ZoneInvariant ==
    \A s \in PlayStates, al \in ActionLists, p \in ActorIds,
       c \in Cards, z \in ZoneIdInputs :
        (/\ Played(s, al, p, c, z).ok
         /\ Occurrences(c, CardsIn(s, PlayDestination(RulesWith(al), p))) = 0)
            => CardLeftAndArrived(s, al, p, c, z)

C8_Witness ==
    /\ last.op = "apply" /\ last.action.type = "PlayCard"
    /\ last.action.from # PlayDestination(rules, last.player)
    /\ Occurrences(last.action.card, CardsIn(state, last.action.from)) = 0
    /\ Occurrences(last.action.card,
                   CardsIn(state, PlayDestination(rules, last.player))) = 1
    /\ PlayDestination(rules, last.player) = "exile"

\* C10: auto-resolution drains the stack.  After every apply_action that
\* returns Ok with no choice pending at the end of the cycle, the stack is
\* empty and the events hold exactly one StackResolved per item that was on
\* the stack.
C10_AutoResolveDrains ==
    \A s \in {state, Requested, Lifeless}, al \in ActionLists, p \in ActorIds, a \in ActionInputs :
        LET r == apply_action(RulesWith(al), s, p, a)
        IN (r.ok /\ r.state.pending_choice = None) =>
              /\ r.state.stack = <<>>
              /\ Len(ResolvedIds(r.events)) = Len(s.stack)
              /\ \A k \in DOMAIN s.stack :
                    Occurrences(s.stack[k].id, ResolvedIds(r.events)) = 1

C10_Witness ==
    /\ Len(state.stack) = MaxStack
    /\ TotalCards(state.zones) > 0
    /\ \E p \in PlayerIds, z \in ZoneIds, c \in Cards :
          apply_action(RulesWith(PlayOnAnyStack), state, p, PlayCard(c, z)).ok
    /\ apply_action(rules, state, Turn.priority_player, PassPriority).ok

\* The actions of the turn machine, whose zones hold no cards to play.
TurnActionInputs == {PassPriority, Concede} \cup {ChooseTarget(id) : id \in ChoiceIds}

\* C11: a pending choice freezes the game.  In every apply_action cycle that
\* returns Ok and ends with a choice still pending, the stack is as it was,
\* the events hold no StackResolved and no PhaseAdvanced, and phase, step,
\* turn.number and active_player are unchanged, however many players have
\* passed.
C11_PendingChoiceFreezes ==
    \A s \in {state, Requested}, p \in ActorIds, a \in TurnActionInputs :
        LET r == apply_action(rules, s, p, a)
        IN (r.ok /\ r.state.pending_choice # None) =>
              /\ r.state.stack = s.stack
              /\ OfType(r.events, "StackResolved") = <<>>
              /\ OfType(r.events, "PhaseAdvanced") = <<>>
              /\ r.state.turn.phase = s.turn.phase
              /\ r.state.turn.step = s.turn.step
              /\ r.state.turn.number = s.turn.number
              /\ r.state.turn.active_player = s.turn.active_player

C11_Witness ==
    /\ OkPass
    /\ state.pending_choice # None
    /\ state.stack # <<>>
    /\ N = 2 /\ Turn.priority_passes > N
    /\ apply_action(rules, state, Turn.priority_player, PassPriority).ok

\* The winner the life check must name: the lowest-index player whose life
\* is positive, None when there is none.
Survivor(s) ==
    IF \E i \in DOMAIN s.players : s.players[i].life > 0
    THEN Some(s.players[CHOOSE i \in DOMAIN s.players :
                           /\ s.players[i].life > 0
                           /\ \A j \in 1..(i - 1) : s.players[j].life <= 0].id)
    ELSE None

SomeoneLifeless(s) == \E i \in DOMAIN s.players : s.players[i].life <= 0

OtherPlayer(s, p) ==
    IF \E i \in DOMAIN s.players : s.players[i].id # p
    THEN Some(s.players[CHOOSE i \in DOMAIN s.players :
                           /\ s.players[i].id # p
                           /\ \A j \in 1..(i - 1) : s.players[j].id = p].id)
    ELSE None

\* C13 as stated: concede.  In a non-ended game apply_action(p, Concede)
\* returns Ok for every player p, whoever is active or holds priority, sets
\* state.ended with the lowest-index other player as winner (None when p is
\* alone), and its events hold GameEnded with that winner.
C13_Concede ==
    state.ended = None =>
        \A p \in PlayerIds :
            LET r == apply_action(rules, state, p, Concede)
            IN /\ r.ok
               /\ r.state.ended # None
               /\ r.state.ended[1].winner = OtherPlayer(state, p)
               /\ \E k \in DOMAIN r.events :
                     /\ r.events[k].type = "GameEnded"
                     /\ r.events[k].winner = OtherPlayer(state, p)

\* C14 as stated: triggers run inside the action cycle.  A successful
\* PlayCard that moves the card into the acting player's field zone pushes
\* at least one triggered stack item and, with no choice pending, resolves
\* it in the same call: the events hold a StackPushed and more StackResolved
\* events than the stack held items before the call.
C14_TriggersInCycle ==
    \A p \in PlayerIds, c \in Cards, z \in ZoneIds :
        LET r == apply_action(rules, state, p, PlayCard(c, z))
        IN (/\ r.ok
            /\ r.state.pending_choice = None
            /\ PlayDestination(rules, p) = "field@" \o ToString(p)) =>
              /\ OfType(r.events, "StackPushed") # <<>>
              /\ Len(ResolvedIds(r.events)) > Len(state.stack)

\* C20 as stated: no silent state change.  Every apply_action call that
\* returns Ok and leaves the GameState different from before returns at
\* least one event; so a successful ChooseTarget, which clears the pending
\* choice, returns an event.
C20_NoSilentChange ==
    \A p \in ActorIds, a \in TurnActionInputs :
        LET r == apply_action(rules, state, p, a)
        IN (r.ok /\ r.state # state) => r.events # <<>>

\* The event that mirrors a command and carries its fields.
EventFor(cmd) ==
    CASE cmd.type = "MoveCard" ->
             [type |-> "CardMoved", card |-> cmd.card, from |-> cmd.from, to |-> cmd.to]
      [] cmd.type = "ChangeLife" ->
             [type |-> "LifeChanged", player |-> cmd.player, delta |-> cmd.delta]
      [] cmd.type = "SetLife" ->
             [type |-> "LifeSet", player |-> cmd.player, amount |-> cmd.amount]
      [] cmd.type = "PushStack" -> [type |-> "StackPushed", item_id |-> cmd.item.id]
      [] cmd.type = "RequestChoice" ->
             [type |-> "ChoiceRequested", choice_id |-> cmd.choice.id,
              player |-> cmd.player]
      [] cmd.type = "ShuffleZone" -> [type |-> "ZoneShuffled", zone |-> cmd.zone]

\* Commands of the variants that act on players, zones, the stack and the
\* pending choice, with ids of existing and of missing players and zones.
CommandInputs ==
    { MoveCard(1, "exile", "field@0"), MoveCard(2, "limbo", "limbo"),
      ChangeLife(0, -1), ChangeLife(N, 1), SetLife(0, 1), SetLife(N, 0),
      PushStack(StackItem(1, 0)), RequestChoice(0, PendingChoice(1)),
      ShuffleZone("exile") }

CommandLists ==
    {<<>>} \cup {<< c >> : c \in CommandInputs}
           \cup {<< c, d >> : c \in CommandInputs, d \in CommandInputs}

\* C18 as stated: one event per command.  For every command list,
\* commit_commands returns, and returns exactly one event per command, the
\* i-th event mirroring the i-th command and carrying its fields.
C18_OneEventPerCommand ==
    \A cmds \in CommandLists :
        LET r == commit_commands(state, cmds)
        IN /\ ~r.panic
           /\ r.events = [i \in DOMAIN cmds |-> EventFor(cmds[i])]

\* The number of times each card occurs in a zone.
CardCounts(cards) == [c \in Cards |-> Occurrences(c, cards)]

\* C19 as stated: ShuffleZone.  Committing ShuffleZone{zone} completes,
\* leaves the zone holding the same multiset of cards, changes nothing else
\* and emits exactly one ZoneShuffled{zone} event.
C19_ShuffleZone ==
    \A z \in ZoneIds :
        LET r == commit_commands(state, << ShuffleZone(z) >>)
        IN /\ ~r.panic
           /\ r.events = << [type |-> "ZoneShuffled", zone |-> z] >>
           /\ CardCounts(CardsIn(r.state, z)) = CardCounts(CardsIn(state, z))
           /\ \A i \in DOMAIN state.zones :
                 state.zones[i].id # z => r.state.zones[i] = state.zones[i]
           /\ [r.state EXCEPT !.zones = state.zones] = state

(***************************************************************************)
(* The opening deal: the state before the initialize_game call and the      *)
(* stream of the call are those recorded by the call.                       *)
(***************************************************************************)
Before == last.action.before
HandOf(s, p) == CardsIn(s, "hand@" \o ToString(p))
DeckOf(s, p) == CardsIn(s, "deck@" \o ToString(p))
HandsEmpty(s) == \A p \in PlayerIds : HandOf(s, p) = <<>>

\* The deck of player p as the shuffles of the call leave it.
ShuffledDeck(p) ==
    DeckOf(ShuffleDecks([state |-> Before, taken |-> 0], 0, last.action.rng).state, p)

SamePile(a, b) ==
    /\ Len(a) = Len(b)
    /\ \A k \in DOMAIN a : Occurrences(a[k], a) = Occurrences(a[k], b)

Least(S) == CHOOSE x \in S : \A y \in S : x <= y

SkippedDraw(p) ==
    rules.turn.skip_first_turn_draw_for_first_player /\ p = Turn.active_player

\* C16: starting hands.  After initialize_game on a state whose hands are
\* empty, every player who is not skipped holds exactly min(starting hand
\* size, deck size, maximum hand size) cards, the first cards of the
\* shuffled deck in deck order; with the first draw skipped, the first
\* player's hand is empty and the deck keeps all its cards.
C16_StartingHands ==
    (last.op = "init" /\ HandsEmpty(Before)) =>
        \A p \in PlayerIds :
            IF SkippedDraw(p)
            THEN /\ HandOf(state, p) = <<>>
                 /\ SamePile(DeckOf(state, p), DeckOf(Before, p))
            ELSE HandOf(state, p) =
                     SubSeq(ShuffledDeck(p), 1,
                            Least({rules.players.starting_hand_size,
                                   Len(DeckOf(Before, p)),
                                   rules.players.max_hand_size}))

C16_Witness ==
    /\ last.op = "init" /\ N = 2
    /\ rules.players.starting_hand_size = 2 /\ rules.players.max_hand_size = 1
    /\ SkippedDraw(1) /\ Len(DeckOf(state, 1)) = 1
    /\ Len(DeckOf(Before, 0)) = 2 /\ HandOf(state, 0) = << 2 >>

\* The values the shuffles of the decks take from the stream: one for each
\* card of a deck but its first.
RECURSIVE ShuffleDraws(_, _)
ShuffleDraws(s, p) ==
    IF p >= Len(s.players) THEN 0
    ELSE (IF DeckOf(s, p) = <<>> THEN 0 ELSE Len(DeckOf(s, p)) - 1)
         + ShuffleDraws(s, p + 1)

\* C17: first player.  After initialize_game with at least one player the
\* active player and the priority player are the same valid player f: 0 for
\* the rules "player_0" and "first"; 1 for "player_1" and "second" with two
\* or more players and 0 otherwise; and for "random" and any other rule the
\* value drawn after all deck shuffles, modulo the player count.
C17_FirstPlayer ==
    (last.op = "init" /\ N >= 1) =>
        /\ Turn.priority_player = Turn.active_player
        /\ Turn.active_player \in 0..(N - 1)
        /\ rules.players.first_player_rule \in {"player_0", "first"}
              => Turn.active_player = 0
        /\ rules.players.first_player_rule \in {"player_1", "second"}
              => Turn.active_player = (IF N >= 2 THEN 1 ELSE 0)
        /\ rules.players.first_player_rule
                 \notin {"player_0", "first", "player_1", "second"}
              => Turn.active_player =
                     last.action.rng[ShuffleDraws(Before, 0) + 1] % N

C17_Witness ==
    /\ last.op = "init" /\ N = 2
    /\ rules.players.first_player_rule = "coin"
    /\ ShuffleDraws(Before, 0) = 2
    /\ last.action.rng[1] = 0 /\ last.action.rng[3] = 1
    /\ Turn.active_player = 1

(***************************************************************************)
(* The phase cursor.  A (phase, step) pair stands at the first place of    *)
(* the declared order that carries its ids; a phase without steps holds    *)
(* the placeholder step alone.                                             *)
(***************************************************************************)
StepsOf(phase) == IF phase.steps = <<>> THEN << "start" >> ELSE phase.steps
PlaceOfPhase(r, phase) ==
    FirstIdx({i \in DOMAIN r.turn.phases : r.turn.phases[i].id = phase})
PlaceOfStep(r, pi, step) ==
    FirstIdx({j \in DOMAIN StepsOf(r.turn.phases[pi]) :
                 StepsOf(r.turn.phases[pi])[j] = step})
AtLastStep(r, pi, si) == si = Len(StepsOf(r.turn.phases[pi]))
AtLastPhase(r, pi) == pi = Len(r.turn.phases)

SuccessorAt(r, pi, si) ==
    IF ~AtLastStep(r, pi, si)
    THEN << r.turn.phases[pi].id, StepsOf(r.turn.phases[pi])[si + 1] >>
    ELSE IF ~AtLastPhase(r, pi)
    THEN << r.turn.phases[pi + 1].id, StepsOf(r.turn.phases[pi + 1])[1] >>
    ELSE << r.turn.phases[1].id, StepsOf(r.turn.phases[1])[1] >>
SuccessorIn(r, pi, step) == SuccessorAt(r, pi, PlaceOfStep(r, pi, step))
Successor(r, t) == SuccessorIn(r, PlaceOfPhase(r, t.phase), t.step)

Cursor(t) == << t.phase, t.step >>
Advances(events) == OfType(events, "PhaseAdvanced")

InOrder(r, s, res) ==
    /\ Len(Advances(res.events)) <= 1
    /\ Advances(res.events) = <<>> => Cursor(res.state.turn) = Cursor(s.turn)
    /\ Advances(res.events) # <<>> =>
          /\ Cursor(res.state.turn) = Successor(r, s.turn)
          /\ Cursor(Advances(res.events)[1]) = Cursor(res.state.turn)

LastPhase(r) == r.turn.phases[Len(r.turn.phases)]
LastCursor(r) == << LastPhase(r).id, StepsOf(LastPhase(r))[Len(StepsOf(LastPhase(r)))] >>
FirstCursor(r) == << r.turn.phases[1].id, StepsOf(r.turn.phases[1])[1] >>
WrapCycle ==
    /\ last'.op = "apply"
    /\ Advances(last'.events) # <<>>
    /\ Cursor(Turn) = LastCursor(rules)
    /\ Cursor(state'.turn) = FirstCursor(rules)

\* C26: the turn number.  turn.number is 1 in a new game and never
\* decreases; a step changes it only by +1 and only in a cycle that wraps
\* from the last step of the last phase to the first step of the first
\* phase; in the cycles that count a turn active_player becomes the next
\* player in seat order, and in every other step it is kept.
C26_TurnNumber ==
    /\ [](Turn.number >= 1 /\ (last.op = "new" => Turn.number = 1))
    /\ [][/\ state'.turn.number \in {Turn.number, Turn.number + 1}
          /\ state'.turn.number = Turn.number + 1 =>
                /\ WrapCycle
                /\ state'.turn.active_player = (Turn.active_player + 1) % N
          /\ state'.turn.number = Turn.number =>
                state'.turn.active_player = Turn.active_player]_vars

C26_Witness ==
    /\ OkPass
    /\ Advances(last.events) # <<>>
    /\ N = 3
    /\ Turn.number = 3
    /\ Turn.active_player = 0

\* C24 as stated: priority_passes counts consecutive passes.  The count of
\* successful PassPriority calls since the most recent phase advance or
\* successful non-pass action (PlayCard, ChooseTarget) is 0 in a new game,
\* 0 after a cycle that advances the phase, 0 after a successful PlayCard or
\* ChooseTarget, one more after a successful pass that advances nothing, and
\* is kept by every other step (a concession ends the game; a host commit
\* is not an action); priority_passes is that count.
C24_ConsecutivePasses ==
    /\ [](last.op = "new" => Turn.priority_passes = 0)
    /\ [][state'.turn.priority_passes =
             IF last'.op = "apply" /\ Advances(last'.events) # <<>> THEN 0
             ELSE IF last'.op = "apply" /\ last'.action.type = "PassPriority"
             THEN Turn.priority_passes + 1
             ELSE IF last'.op = "apply"
                     /\ last'.action.type \in {"PlayCard", "ChooseTarget"}
             THEN 0
             ELSE Turn.priority_passes]_vars

\* The events of one cycle, by type.
Types(events) == [i \in DOMAIN events |-> events[i].type]
Repeat(x, n) == [i \in 1..n |-> x]
ReducerTypes(a) ==
    IF a.type = "PlayCard" THEN << "CardMoved", "CardPlayed" >>
    ELSE IF a.type = "PassPriority" THEN << "PriorityPassed" >>
    ELSE IF a.type = "Concede" THEN << "GameEnded" >>
    ELSE <<>>
LifeCheckTypes(s) == IF SomeoneLifeless(s) THEN << "GameEnded" >> ELSE <<>>
ReducerEventsOf(p, a, events) ==
    /\ a.type = "PlayCard" =>
          /\ events[1].card = a.card /\ events[1].from = a.from
          /\ events[2] = [type |-> "CardPlayed", player |-> p, card |-> a.card]
    /\ a.type = "PassPriority" => events[1].by = p
EventsInOrder(s, p, a, events) ==
    /\ Len(Advances(events)) <= 1
    /\ Types(events) = ReducerTypes(a) \o LifeCheckTypes(s)
                          \o Repeat("StackResolved", Len(ResolvedIds(events)))
                          \o Repeat("PhaseAdvanced", Len(Advances(events)))
    /\ ReducerEventsOf(p, a, events)
CycleInOrder(s, p, a, res) == res.ok => EventsInOrder(s, p, a, res.events)

\* C30: event order within one cycle.  The events of a successful
\* apply_action are the reducer's events (CardMoved immediately followed by
\* CardPlayed for PlayCard, PriorityPassed for PassPriority), then GameEnded
\* if a life total is at or below 0, then the StackResolved events, then at
\* most one PhaseAdvanced as the last event.
C30_EventOrder ==
    \A s \in {state, Requested, Lifeless}, al \in {rules.actions, PlayOnAnyStack},
       p \in ActorIds, a \in ActionInputs :
        CycleInOrder(s, p, a, apply_action(RulesWith(al), s, p, a))

C30_Witness ==
    /\ Len(state.stack) = MaxStack
    /\ N = 1
    /\ Types(apply_action(rules, Lifeless, 0, PassPriority).events)
          = << "PriorityPassed", "GameEnded" >> \o Repeat("StackResolved", MaxStack)
               \o << "PhaseAdvanced" >>
    /\ \E c \in Cards, z \in ZoneIds :
          Types(apply_action(RulesWith(PlayOnAnyStack), state, 0, PlayCard(c, z)).events)
              = << "CardMoved", "CardPlayed" >> \o Repeat("StackResolved", MaxStack)

\* The execute_effect call that was made.
EffectCall == last.op = "effect"
BuiltinCall == EffectCall /\ last.action.type = "Builtin"
ScriptedCall == EffectCall /\ last.action.type = "Scripted"
EffectText == last.action.effect.name
EffectResult == last.action.result
ParamOf(prefix) == StripPrefix(EffectText, prefix)

\* The decimal numeral of an integer n >= 0; a text that is a number with or
\* without a sign; a number below zero.
Numeral(t) == AllDigits(t) /\ StripZeros(t) = t
Numeric(t) == t # <<>> /\ (AllDigits(t) \/ (Head(t) \in {"+", "-"} /\ AllDigits(Tail(t))))
Negative(t) ==
    t # <<>> /\ Head(t) = "-" /\ AllDigits(Tail(t)) /\ StripZeros(Tail(t)) # << "0" >>
InI32(t) == AtMost(t, I32MaxText)

\* The result is the one command ChangeLife{controller, -n}, n given by its numeral.
OneDamage(result, controller, n) ==
    /\ result.ok
    /\ Len(result.commands) = 1
    /\ result.commands[1].type = "ChangeLife"
    /\ result.commands[1].player = controller
    /\ ToText(-result.commands[1].delta) = n

DamageAndPumpErrors ==
    /\ (StartsWith(EffectText, Text_damage)
        /\ (~Numeric(ParamOf(Text_damage)) \/ Negative(ParamOf(Text_damage))))
          => ~EffectResult.ok
    /\ StartsWith(EffectText, Text_pump) => ~EffectResult.ok

\* C22 as stated: builtin damage and pump.  For every integer n >= 0 the
\* builtin "damage_n" returns exactly one command, ChangeLife{controller,
\* -n}; a damage parameter that is not a number or is negative returns Err;
\* every "pump_..." returns Err.
C22_DamageAndPump_Original ==
    BuiltinCall =>
        /\ (StartsWith(EffectText, Text_damage) /\ Numeral(ParamOf(Text_damage)))
              => OneDamage(EffectResult, last.player, ParamOf(Text_damage))
        /\ DamageAndPumpErrors

\* C22 as amended: the same, for every integer n with 0 <= n <= i32::MAX.
C22_DamageAndPump ==
    BuiltinCall =>
        /\ (/\ StartsWith(EffectText, Text_damage)
            /\ Numeral(ParamOf(Text_damage))
            /\ InI32(ParamOf(Text_damage)))
              => OneDamage(EffectResult, last.player, ParamOf(Text_damage))
        /\ DamageAndPumpErrors

C22_Witness ==
    /\ BuiltinCall
    /\ last.player = 1
    /\ EffectText = Text_damage \o I32MaxText
    /\ EffectResult = Commands(<< ChangeLife(1, -2147483647) >>)

\* A builtin text of the vocabulary; a result of a script that is a map of a
\* known type with every field of the type there, typed and valid.
Vocabulary ==
    { Text_damage, Text_draw, Text_gain_life, Text_lose_life, Text_set_life, Text_mill,
      Text_discard, Text_pump, Text_set_stats, Text_grant_keyword, Text_remove_keyword,
      Text_gain_resource, Text_spend_resource, Text_set_resource, Text_add_counter,
      Text_remove_counter, Text_create_token, Text_move_card }
Recognised(text) == \E prefix \in Vocabulary : StartsWith(text, prefix)
WellFormedAs(effect_type, map) ==
    /\ effect_type \in KnownTypes
    /\ NotExtracted(map, Extracts(effect_type)) = 0
    /\ NotValid(map, Validations(effect_type)) = 0
WellFormed(result) ==
    /\ result.kind = "map"
    /\ Has(result.map, "type")
    /\ result.map["type"].kind = "string"
    /\ WellFormedAs(result.map["type"].string, result.map)
ScriptResults ==
    execute_ability(last.action.scripting[1], EffectText).results

\* C23 as stated: no empty success.  A builtin text of a recognised kind
\* never yields Ok with an empty command list, and a script that returns k
\* well-formed records of known types yields Err or exactly k commands.
C23_NoEmptySuccess ==
    /\ (BuiltinCall /\ Recognised(EffectText))
          => ~(EffectResult.ok /\ EffectResult.commands = <<>>)
    /\ (/\ ScriptedCall
        /\ last.action.scripting # None
        /\ execute_ability(last.action.scripting[1], EffectText).ok
        /\ \A i \in DOMAIN ScriptResults : WellFormed(ScriptResults[i])
        /\ EffectResult.ok)
          => Len(EffectResult.commands) = Len(ScriptResults)

(***************************************************************************)
(* Triggers.                                                               *)
(***************************************************************************)
TriggersCall == last.op = "triggers"
TriggerEvent == last.action.event
TriggerCommands == last.action.commands

\* The abilities of the definition of a card that have the trigger, counted.
RECURSIVE AbilitiesWith(_, _)
AbilitiesWith(abilities, trigger) ==
    IF abilities = <<>> THEN 0
    ELSE (IF Head(abilities).trigger = trigger THEN 1 ELSE 0)
         + AbilitiesWith(Tail(abilities), trigger)
DefinitionsOf(card) == {i \in DOMAIN rules.cards : rules.cards[i].id = ToText(card)}
AbilityCount(card, trigger) ==
    IF DefinitionsOf(card) = {} THEN 0
    ELSE AbilitiesWith(rules.cards[CHOOSE i \in DefinitionsOf(card) : TRUE].abilities,
                       trigger)

\* The event is a CardMoved of a card into an owned zone, which holds the
\* card, and whose id starts with "field".
EntersOwnedField(event) ==
    /\ event.type = "CardMoved"
    /\ StartsWithField(state, event.to)
    /\ ZoneIdx(state.zones, event.to) # 0
    /\ state.zones[ZoneIdx(state.zones, event.to)].owner # None
    /\ CountIn(event.card, state.zones[ZoneIdx(state.zones, event.to)].cards) > 0
OwnerOfZone(zone_id) == state.zones[ZoneIdx(state.zones, zone_id)].owner[1]
AllPushStackFor(commands, controller) ==
    \A i \in DOMAIN commands :
        /\ commands[i].type = "PushStack"
        /\ commands[i].item.controller = controller

\* C27: for a CardMoved into an owned zone whose id starts with "field",
\* evaluate_triggers returns one PushStack per "etb" ability of the definition
\* of the card (none when it has no such ability), controlled by the owner of
\* the zone; for a CardPlayed, one PushStack per "on_play" ability; for every
\* other event, no commands.
C27_TriggersPerAbility ==
    TriggersCall =>
        IF EntersOwnedField(TriggerEvent)
        THEN /\ Len(TriggerCommands) = AbilityCount(TriggerEvent.card, "etb")
             /\ AllPushStackFor(TriggerCommands, OwnerOfZone(TriggerEvent.to))
        ELSE IF TriggerEvent.type = "CardPlayed"
        THEN /\ Len(TriggerCommands) = AbilityCount(TriggerEvent.card, "on_play")
             /\ AllPushStackFor(TriggerCommands, TriggerEvent.player)
        ELSE TriggerCommands = <<>>

\* C28: the ids handed out by next_stack_id start at 1 and strictly increase:
\* the k-th id handed out is greater than every id before it, and no two items
\* of the stack share an id, also when items were resolved in between.  (The
\* counter stays at most MaxIssued + 1, far below the width of a u32.)
C28_StackItemIds ==
    /\ issued.ids # <<>> => issued.ids[1] = 1
    /\ \A i, j \in DOMAIN issued.ids : i < j => issued.ids[i] < issued.ids[j]
    /\ \A i, j \in DOMAIN state.stack : i # j => state.stack[i].id # state.stack[j].id
    /\ \A i \in DOMAIN issued.ids : issued.ids[i] < next_stack_id

\* An id was handed out, its item resolved, and another id handed out after.
C28_Witness ==
    /\ issued.resolved >= 1
    /\ Len(issued.ids) > issued.resolved
    /\ TriggersCall
    /\ TriggerCommands # <<>>

(***************************************************************************)
(* Card instances.                                                         *)
(***************************************************************************)
CommandOf(l) == l.action.command
TokenZone(s, cmd) == ZoneIdx(s.zones, cmd.zone)
CardIdsIn(zones) == {AllCards(zones)[i] : i \in DOMAIN AllCards(zones)}
FreshToken(s, s2, cmd, events) ==
    /\ Len(events) = 1
    /\ events[1].type = "TokenCreated"
    /\ \A c \in CardIdsIn(s.zones) : U32Less(c, events[1].card)
    /\ TokenZone(s, cmd) # 0 =>
           s2.zones[TokenZone(s, cmd)].cards =
               Append(s.zones[TokenZone(s, cmd)].cards, events[1].card)
    /\ events[1].card \in DOMAIN s2.card_instances
    /\ s2.card_instances[events[1].card] =
           [stats |-> <<>>, stat_modifiers |-> <<>>, keywords |-> <<>>,
            counters |-> <<>>]

\* C21: committing CreateToken{player, token_type, zone} produces a card id
\* strictly greater than every card id in any zone before the command, appends
\* it to the target zone, creates an empty instance record under it, and
\* reports the same id in the TokenCreated event.
C21_CreateToken ==
    [][last'.action.type = "CreateToken" =>
          /\ last'.op = "commit"
          /\ FreshToken(state, state', CommandOf(last'), last'.events)]_vars

\* Every counter is at least 0.
NoNegativeCounter ==
    \A c \in DOMAIN state.card_instances :
        \A t \in DOMAIN state.card_instances[c].counters :
            state.card_instances[c].counters[t] >= 0
\* What a RemoveCounter leaves: 0 when it removes more than the counter holds,
\* the state as it was when the card has no instance record.
RemovedFrom(s, s2, cmd) ==
    IF cmd.card \notin DOMAIN s.card_instances THEN s2 = s
    ELSE cmd.amount > CounterOf(s, cmd.card, cmd.counter_type) =>
             CounterOf(s2, cmd.card, cmd.counter_type) = 0

\* C29: after any sequence of AddCounter and RemoveCounter commands with
\* non-negative amounts every counter of every card instance is at least 0; a
\* RemoveCounter of more than the counter holds leaves exactly 0, and a
\* RemoveCounter on a card with no instance record changes no state.
C29_CountersNeverNegative ==
    /\ []NoNegativeCounter
    /\ [][last'.op = "commit" /\ last'.action.type = "RemoveCounter" =>
              RemovedFrom(state, state', CommandOf(last'))]_vars

(***************************************************************************)
(* The game reached through apply_action alone.                            *)
(***************************************************************************)
ValidPlayer(p) == p \in 0..(N - 1)

\* C31: in every state reached from from_ruleset, or from initialize_game
\* after it, through apply_action calls alone, priority_passes is below the
\* number of players, priority_player is active_player plus priority_passes
\* modulo the number of players, and both are indices of players.
C31_PriorityPosition ==
    /\ N >= 1
    /\ Turn.priority_passes < N
    /\ Turn.priority_player = (Turn.active_player + Turn.priority_passes) % N
    /\ ValidPlayer(Turn.active_player)
    /\ ValidPlayer(Turn.priority_player)

\* A pass in the middle of a round of a later turn, with another player active.
C31_Witness ==
    /\ last.op = "apply"
    /\ last.action.type = "PassPriority"
    /\ Turn.number >= 2
    /\ Turn.active_player # 0
    /\ Turn.priority_passes >= 1

CurrentPhases == {i \in DOMAIN rules.turn.phases : rules.turn.phases[i].id = Turn.phase}
StepOfPhase(phase) ==
    IF phase.steps = <<>> THEN Turn.step = "start"
    ELSE \E i \in DOMAIN phase.steps : phase.steps[i] = Turn.step
NeverInvalidPhase(actions) ==
    \A p \in ActorIds, a \in actions :
        \/ validate(rules, state, p, a).ok
        \/ validate(rules, state, p, a).error # "Invalid phase"

\* C35: for rules with at least one phase, in every state reached from
\* from_ruleset through apply_action, turn.phase is the id of a declared
\* phase and turn.step is the id of a step of that phase, or the placeholder
\* "start" when the phase declares no steps; validate never rejects with
\* "Invalid phase".
C35_TurnCursorValid ==
    rules.turn.phases # <<>> =>
        /\ CurrentPhases # {}
        /\ \A i \in CurrentPhases : StepOfPhase(rules.turn.phases[i])
        /\ NeverInvalidPhase(TurnActionInputs)

\* The turn has wrapped into a phase that declares no steps.
C35_Witness ==
    /\ last.op = "apply"
    /\ OfType(last.events, "PhaseAdvanced") # <<>>
    /\ Turn.number >= 2
    /\ \E i \in CurrentPhases : rules.turn.phases[i].steps = <<>>
    /\ Turn.step = "start"

(***************************************************************************)
(* Pending choices and the end of the game.                                *)
(***************************************************************************)
AdvancesIn(events) == Len(OfType(events, "PhaseAdvanced"))
ChoiceCleared(s, s2, l) ==
    /\ l.op = "apply"
    /\ l.action.type = "ChooseTarget"
    /\ s.pending_choice # None
    /\ s2.pending_choice = None

\* C32: while a committed RequestChoice is unanswered, no sequence of
\* PassPriority actions makes priority_passes exceed the number of players;
\* the cycle in which ChooseTarget clears the choice advances the phase at
\* most once, and when it advances it leaves priority_passes at 0.
C32_PassCountBounded ==
    /\ [](state.pending_choice # None => Turn.priority_passes <= N)
    /\ [][ChoiceCleared(state, state', last') =>
              /\ AdvancesIn(last'.events) <= 1
              /\ AdvancesIn(last'.events) = 1 => state'.turn.priority_passes = 0]_vars

GameEndedIn(events) == OfType(events, "GameEnded")
EndReported(end, events) ==
    /\ Len(GameEndedIn(events)) = 1
    /\ GameEndedIn(events)[1].winner = end.winner
    /\ GameEndedIn(events)[1].reason = end.reason

\* C33: state.ended goes from unset to set at most once and its winner and
\* reason never change afterwards; the cycle that sets it emits exactly one
\* GameEnded, which names that winner and reason, and no other cycle emits
\* one, also when a player concedes while some player has life <= 0.
C33_GameEndsOnce ==
    /\ [](last.op = "apply" => Len(GameEndedIn(last.events)) <= 1)
    /\ [][/\ state.ended # None => state'.ended = state.ended
          /\ (state.ended = None /\ state'.ended # None) =>
                 EndReported(state'.ended[1], last'.events)]_vars

NoAdvanceAfterEnd(events) ==
    \A i, j \in DOMAIN events :
        (i < j /\ events[i].type = "GameEnded") => events[j].type # "PhaseAdvanced"
SameCursor(t1, t2) ==
    /\ t1.phase = t2.phase
    /\ t1.step = t2.step
    /\ t1.number = t2.number
    /\ t1.active_player = t2.active_player
    /\ t1.priority_passes = t2.priority_passes

\* C34: in the apply_action cycle in which state.ended becomes set, by Concede
\* or by the life check, no PhaseAdvanced follows GameEnded, and phase, step,
\* turn.number, active_player and priority_passes stay as the action left
\* them when the game ended.
C34_NothingAdvancesAfterEnd ==
    [][(state.ended = None /\ state'.ended # None /\ last'.op = "apply") =>
           /\ NoAdvanceAfterEnd(last'.events)
           /\ SameCursor(state'.turn,
                         apply(rules, state, last'.player, last'.action).state.turn)]_vars

(***************************************************************************)
(* Conservation of cards.                                                  *)
(***************************************************************************)
PileOf(s, p) == DeckOf(s, p) \o HandOf(s, p)

\* C36: initialize_game conserves cards.  For every player and every setting
\* of starting_hand_size and max_hand_size, the cards of the player's deck
\* and hand together are the same multiset after initialize_game as before.
C36_InitConservesCards ==
    last.op = "init" => \A p \in PlayerIds : SamePile(PileOf(state, p), PileOf(Before, p))

AllZoneCards(s) == AllCards(s.zones)
EachOnce(s) ==
    \A k \in DOMAIN AllZoneCards(s) :
        Occurrences(AllZoneCards(s)[k], AllZoneCards(s)) = 1
MoveInputs == {MoveCard(c, from, to) : c \in Cards, from \in ZoneIdInputs, to \in ZoneIdInputs}
AbsentFromSource(s, cmd) ==
    \A i \in DOMAIN s.zones :
        s.zones[i].id = cmd.from => Occurrences(cmd.card, s.zones[i].cards) = 0

\* C37: MoveCard keeps each card in exactly one zone.  From a state in which
\* every card of the zones occurs exactly once, a committed MoveCard{card,
\* from, to}, whatever zones `from` and `to` name, leaves every card of the
\* zones occurring exactly once; a MoveCard whose card is absent from `from`
\* changes no zone.
C37_MoveCardOneZone ==
    \A cmd \in MoveInputs :
        /\ EachOnce(state) => EachOnce(commit_commands(state, << cmd >>).state)
        /\ AbsentFromSource(state, cmd) =>
               commit_commands(state, << cmd >>).state.zones = state.zones

TokenIdOf(l) == l.events[1].card
TokenMade(l) == l.op = "commit" /\ l.action.type = "CreateToken"

\* C38: token ids are unique.  Every CreateToken yields a card id that has no
\* instance record yet, and so differs from the id of every earlier
\* CreateToken, also when the target zone of a CreateToken does not exist.
C38_TokenIdsUnique ==
    [][TokenMade(last') => TokenIdOf(last') \notin DOMAIN state.card_instances]_vars

(***************************************************************************)
(* Progress.                                                               *)
(***************************************************************************)
Running == state.ended = None /\ state.pending_choice = None
PassAccepted == apply_action(rules, state, Turn.priority_player, PassPriority).ok
AdvancedNow == last.op = "apply" /\ AdvancesIn(last.events) > 0

\* C39: progress.  With at least one player and one phase, while the game has
\* not ended and no choice is pending the PassPriority of the priority holder
\* is accepted; and when the priority holder keeps passing, every run
\* eventually advances the phase and eventually increases turn.number.
C39_Progress ==
    /\ [](Running => PassAccepted)
    /\ (Running /\ last.op = "new") ~> AdvancedNow
    /\ (Running /\ last.op = "new") ~> (Turn.number > 1)

====
